---- MODULE Spec2Model ----
(***************************************************************************)
(* A model of the .af parser of agentfoundry_cli/parser.py: the character  *)
(* level Tokenizer, the token level Parser and the fuzzy key suggestion.   *)
(*                                                                         *)
(* Text is a sequence of one-character strings.  Positions (Tokenizer.pos, *)
(* Parser.pos) are 0-based as in the Python source; lines and columns are  *)
(* 1-based.  Python's None is the string "None" for a character and the    *)
(* number 0 for a line or a column.                                        *)
(***************************************************************************)
EXTENDS Integers, Sequences, FiniteSets, TLC

VARIABLES
    content,         \* Tokenizer.content: the text handed to the tokenizer
    tpos,            \* Tokenizer.pos
    tline,           \* Tokenizer.line
    tcolumn,         \* Tokenizer.column
    tokens,          \* the list tokenize() builds, then Parser.tokens
    pos,             \* Parser.pos
    result,          \* Parser.result: a dict, kept in insertion order
    seen_keys,       \* Parser.seen_keys: key -> line of its accepted occurrence
    key_token,       \* _parse_line's local key_token while its value is parsed
    items,           \* _parse_list_value's local items
    expecting_item,  \* _parse_list_value's local expecting_item
    pc,              \* where the run of validate_af_content stands
    returned,        \* the dict validate_af_content returned, in iteration order
    error,           \* the exception validate_af_content raised
    key1,            \* the key given to the first of two runs of _find_closest_key
    suggested,       \* what each of the two runs suggested
    input,           \* the input as the caller gave it: entry point and raw size
    args,            \* the source and stream arguments of the call being made
    io,              \* what the path names and the stream holds, and the accesses made
    cli,             \* the command run, its FILE argument, its output and exit code
    conc             \* a second call in the process: the call that is not running now,
                     \* or the record of the call before

vars == <<content, tpos, tline, tcolumn, tokens, pos, result, seen_keys,
          key_token, items, expecting_item, pc, returned, error, key1, suggested,
          input, args, io, cli, conc>>

-----------------------------------------------------------------------------
(* Characters *)

None == "None"

LowerLetters == {"a","b","c","d","e","f","g","h","i","j","k","l","m",
                 "n","o","p","q","r","s","t","u","v","w","x","y","z"}
UpperLetters == {"A","B","C","D","E","F","G","H","I","J","K","L","M",
                 "N","O","P","Q","R","S","T","U","V","W","X","Y","Z"}
Digits == {"0","1","2","3","4","5","6","7","8","9"}

\* str.isalpha and str.isalnum on the ASCII range
IsAlpha(c) == c \in LowerLetters \cup UpperLetters
IsAlnum(c) == IsAlpha(c) \/ c \in Digits

AlphabetLower == <<"a","b","c","d","e","f","g","h","i","j","k","l","m",
                   "n","o","p","q","r","s","t","u","v","w","x","y","z">>
AlphabetUpper == <<"A","B","C","D","E","F","G","H","I","J","K","L","M",
                   "N","O","P","Q","R","S","T","U","V","W","X","Y","Z">>

\* the code point order of the lowercase letters, which sorted() compares by
Ord(c) == CHOOSE i \in 1..26 : AlphabetLower[i] = c

\* str.lower on one character
LowerChar(c) ==
    IF c \in UpperLetters
    THEN AlphabetLower[CHOOSE i \in 1..26 : AlphabetUpper[i] = c]
    ELSE c

\* a key compared as it is written
AsWritten(s) == s

\* str.lower
Lower(s) == [i \in 1..Len(s) |-> LowerChar(s[i])]

-----------------------------------------------------------------------------
(* Tokens and diagnostics *)

Token(type, value, line, column) ==
    [type |-> type, value |-> value, line |-> line, column |-> column]

NoToken == Token("None", <<>>, 0, 0)

\* An AFParseError: its class, its message (the fixed text; the parts the
\* source formats into it are the fields keys, first_line and suggestion),
\* the line and column it was raised with (0 for None), and its source_line
\* (<<>> for None, <<text>> for a str).
Err(type, message, line, column) ==
    [type |-> type, message |-> message, line |-> line, column |-> column,
     keys |-> <<>>, first_line |-> 0, suggestion |-> <<>>, source_line |-> <<>>]

NoError == Err("None", "", 0, 0)

\* The caret indicator AFParseError.__init__ appends to the message: <<>> for
\* none, or the source line and the caret line under it.
Caret(e) ==
    IF e.source_line # <<>> /\ e.source_line[1] # <<>> /\ e.line # 0 /\ e.column # 0
    THEN <<e.source_line[1], [i \in 1..(e.column - 1) |-> " "] \o <<"^">>>>
    ELSE <<>>

\* str.splitlines(keepends=False) of Tokenizer.__init__, on text whose line
\* boundaries are "\n", "\r\n" and "\r"; st is [i, cur, out]
RECURSIVE SplitLoop(_, _)
SplitLoop(c, st) ==
    IF st.i > Len(c)
    THEN IF st.cur # <<>> THEN Append(st.out, st.cur) ELSE st.out
    ELSE IF c[st.i] = "\n"
    THEN SplitLoop(c, [i |-> st.i + 1, cur |-> <<>>, out |-> Append(st.out, st.cur)])
    ELSE IF c[st.i] = "\r"
    THEN SplitLoop(c, [i |-> IF st.i < Len(c) /\ c[st.i + 1] = "\n" THEN st.i + 2 ELSE st.i + 1,
                       cur |-> <<>>, out |-> Append(st.out, st.cur)])
    ELSE SplitLoop(c, [i |-> st.i + 1, cur |-> Append(st.cur, c[st.i]), out |-> st.out])

SplitLines(c) == SplitLoop(c, [i |-> 1, cur |-> <<>>, out |-> <<>>])

-----------------------------------------------------------------------------
(* Tokenizer.  A scanner state is [pos, line, column]. *)

Peek(c, s) == IF s.pos < Len(c) THEN c[s.pos + 1] ELSE None

\* a "\n" that puts the column back to 1 and leaves the line as it was
AdvanceOnSameLine(c, s) ==
    IF s.pos >= Len(c) THEN s
    ELSE IF c[s.pos + 1] = "\n"
         THEN [pos |-> s.pos + 1, line |-> s.line, column |-> 1]
         ELSE [pos |-> s.pos + 1, line |-> s.line, column |-> s.column + 1]

\* Tokenizer.advance
Advance(c, s) ==
    IF s.pos >= Len(c) THEN s
    ELSE IF c[s.pos + 1] = "\n"
         THEN [pos |-> s.pos + 1, line |-> s.line + 1, column |-> 1]
         ELSE [pos |-> s.pos + 1, line |-> s.line, column |-> s.column + 1]

RECURSIVE SkipWhitespace(_, _)
SkipWhitespace(c, s) ==
    IF Peek(c, s) \in {" ", "\t"} THEN SkipWhitespace(c, Advance(c, s)) ELSE s

\* What one scan gives: the scanner state after it, the token (<<>> for none)
\* and the error raised (NoError for none).
Scanned(s, tok) == [state |-> s, tok |-> <<tok>>, err |-> NoError]
ScanFailed(s, e) == [state |-> s, tok |-> <<>>, err |-> e]

RECURSIVE ScanCommentLoop(_, _, _)
ScanCommentLoop(c, s, value) ==
    IF Peek(c, s) # None /\ Peek(c, s) \notin {"\n", "\r"}
    THEN ScanCommentLoop(c, Advance(c, s), Append(value, Peek(c, s)))
    ELSE [state |-> s, value |-> value]

\* the line terminator behind a comment taken into the comment
ScanCommentWithEnding(c, s) ==
    LET r == ScanCommentLoop(c, Advance(c, s), <<>>)
    IN  IF Peek(c, r.state) = None
        THEN Scanned(r.state, Token("COMMENT", r.value, s.line, s.column))
        ELSE Scanned(Advance(c, r.state),
                     Token("COMMENT", Append(r.value, Peek(c, r.state)), s.line, s.column))

\* Tokenizer._scan_comment
ScanComment(c, s) ==
    LET r == ScanCommentLoop(c, Advance(c, s), <<>>)
    IN  Scanned(r.state, Token("COMMENT", r.value, s.line, s.column))

RECURSIVE ScanKeyLoop(_, _, _)
ScanKeyLoop(c, s, value) ==
    IF Peek(c, s) # None /\ (IsAlnum(Peek(c, s)) \/ Peek(c, s) \in {"_", "-"})
    THEN ScanKeyLoop(c, Advance(c, s), Append(value, Peek(c, s)))
    ELSE [state |-> s, value |-> value]

ScanKey(c, s) ==
    LET r == ScanKeyLoop(c, s, <<>>)
    IN  Scanned(r.state, Token("KEY", r.value, s.line, s.column))

\* the backslash of an unknown escape dropped
UnknownEscapeDropped(value) == value

\* a backslash and a t kept as the two characters they are
TabEscapeKept(value) == Append(Append(value, "\\"), "t")

\* the branch of the escapes of _scan_string for a t behind the backslash
TabEscape(value) == Append(value, "\t")

\* the else branch of the escapes of _scan_string: the backslash is kept and
\* the character behind it is left to the next pass of the loop
UnknownEscape(value) == Append(value, "\\")

\* The while True loop of _scan_string: the scanner state and the value at its
\* break, or the error it raised.
RECURSIVE ScanStringLoop(_, _, _, _, _)
ScanStringLoop(c, s, quote_char, value, start) ==
    LET char == Peek(c, s) IN
    IF char = None
    THEN [state |-> s, value |-> value,
          err |-> Err("AFSyntaxError", "Unterminated string", start.line, start.column)]
    ELSE IF char \in {"\n", "\r"}
    THEN ScanStringLoop(c, Advance(c, s), quote_char, Append(value, char), start)
    ELSE IF char = "\\"
    THEN LET s1 == Advance(c, s)
             next_char == Peek(c, s1)
         IN  IF next_char = None
             THEN [state |-> s1, value |-> value,
                   err |-> Err("AFSyntaxError", "Incomplete escape sequence at end of input",
                               s1.line, s1.column)]
             ELSE IF next_char = quote_char
             THEN ScanStringLoop(c, Advance(c, s1), quote_char, Append(value, quote_char), start)
             ELSE IF next_char = "\\"
             THEN ScanStringLoop(c, Advance(c, s1), quote_char, Append(value, "\\"), start)
             ELSE IF next_char = "n"
             THEN ScanStringLoop(c, Advance(c, s1), quote_char, Append(value, "\n"), start)
             ELSE IF next_char = "t"
             THEN ScanStringLoop(c, Advance(c, s1), quote_char, TabEscape(value), start)
             ELSE ScanStringLoop(c, s1, quote_char, UnknownEscape(value), start)
    ELSE IF char = quote_char
    THEN [state |-> Advance(c, s), value |-> value, err |-> NoError]
    ELSE ScanStringLoop(c, Advance(c, s), quote_char, Append(value, char), start)

\* the empty string check at the end of _scan_string
EmptyStringCheck(r, start) ==
    IF r.value = <<>>
    THEN ScanFailed(r.state,
                    Err("AFEmptyValueError", "String value cannot be empty",
                        start.line, start.column))
    ELSE Scanned(r.state, Token("STRING", r.value, start.line, start.column))

ScanString(c, s) ==
    LET r == ScanStringLoop(c, Advance(c, s), Peek(c, s), <<>>, s)
    IN  IF r.err # NoError THEN ScanFailed(r.state, r.err)
        ELSE EmptyStringCheck(r, s)

\* an end-of-input token given where the blanks ran to the end of the input
EofAtEnd(s) == Scanned(s, Token("EOF", <<>>, s.line, s.column))

\* _next_token where the blanks ran to the end of the input: return None
NoneAtEnd(s) == [state |-> s, tok |-> <<>>, err |-> NoError]

\* Tokenizer._next_token from the scanner state s
NextTokenFrom(c, s0) ==
    LET s == SkipWhitespace(c, s0)
        char == Peek(c, s)
        one(type, value) == Scanned(Advance(c, s), Token(type, value, s.line, s.column))
    IN  IF s.pos >= Len(c) THEN NoneAtEnd(s)
        ELSE IF char = "\n" THEN one("NEWLINE", <<"\n">>)
        ELSE IF char = "\r"
        THEN LET s1 == Advance(c, s)
                 s2 == IF Peek(c, s1) = "\n" THEN Advance(c, s1) ELSE s1
             IN  Scanned(s2, Token("NEWLINE", <<"\n">>, s.line, s.column))
        ELSE IF char = "#" THEN ScanComment(c, s)
        ELSE IF char = ":" THEN one("COLON", <<":">>)
        ELSE IF char = "[" THEN one("LBRACKET", <<"[">>)
        ELSE IF char = "]" THEN one("RBRACKET", <<"]">>)
        ELSE IF char = "," THEN one("COMMA", <<",">>)
        ELSE IF char \in {"\"", "'"} THEN ScanString(c, s)
        ELSE IF IsAlpha(char) \/ char = "_" THEN ScanKey(c, s)
        ELSE ScanFailed(s, Err("AFSyntaxError", "Unexpected character", s.line, s.column))

-----------------------------------------------------------------------------
(* Module constants of parser.py *)

purpose == <<"p","u","r","p","o","s","e">>
vision == <<"v","i","s","i","o","n">>
must == <<"m","u","s","t">>
dont == <<"d","o","n","t">>
nice == <<"n","i","c","e">>

REQUIRED_KEYS == {purpose, vision, must, dont, nice}
CANONICAL_KEY_ORDER == <<purpose, vision, must, dont, nice>>
STRING_KEYS == {purpose, vision}
LIST_KEYS == {must, dont, nice}

-----------------------------------------------------------------------------
(* Fuzzy matching *)

\* the least of the costs of an insertion and a deletion, the substitution left out
MinOfFirstTwo(a, b, c) == IF a <= b THEN a ELSE b

\* min(insertions, deletions, substitutions)
Min3(a, b, c) == IF a <= b /\ a <= c THEN a ELSE IF b <= c THEN b ELSE c

\* the inner loop of _levenshtein_distance, for j, c2 in enumerate(s2), from
\* the loop state st = [j, current_row]: current_row for the character c1
RECURSIVE LevInner(_, _, _, _)
LevInner(previous_row, c1, s2, st) ==
    IF st.j >= Len(s2) THEN st.current_row
    ELSE LET insertions == previous_row[st.j + 2] + 1
             deletions == st.current_row[st.j + 1] + 1
             substitutions == previous_row[st.j + 1] + (IF c1 # s2[st.j + 1] THEN 1 ELSE 0)
         IN  LevInner(previous_row, c1, s2,
                      [j |-> st.j + 1,
                       current_row |-> Append(st.current_row,
                                              Min3(insertions, deletions, substitutions))])

\* the outer loop of _levenshtein_distance, for i, c1 in enumerate(s1), from
\* the loop state st = [i, previous_row]: previous_row behind the last character
RECURSIVE LevOuter(_, _, _)
LevOuter(s1, s2, st) ==
    IF st.i >= Len(s1) THEN st.previous_row
    ELSE LevOuter(s1, s2,
                  [i |-> st.i + 1,
                   previous_row |-> LevInner(st.previous_row, s1[st.i + 1], s2,
                                             [j |-> 0, current_row |-> <<st.i + 1>>])])

\* _levenshtein_distance once len(s1) >= len(s2)
LevOrdered(s1, s2) ==
    IF Len(s2) = 0 THEN Len(s1)
    ELSE LET last == LevOuter(s1, s2, [i |-> 0,
                                       previous_row |-> [j \in 1..(Len(s2) + 1) |-> j - 1]])
         IN  last[Len(last)]

LevenshteinDistance(s1, s2) ==
    IF Len(s1) < Len(s2) THEN LevOrdered(s2, s1) ELSE LevOrdered(s1, s2)

\* The orders in which a for loop may visit the set S: the iteration order of a
\* set of str follows the strings' hashes, which are salted per process.
IterationOrders(S) ==
    {o \in [1..Cardinality(S) -> S] : \A i, j \in 1..Cardinality(S) : o[i] = o[j] => i = j}

RequiredKeyOrders == IterationOrders(REQUIRED_KEYS)

\* the for loop of _find_closest_key over valid_keys visited in the given order:
\* best is [inf, min_distance, closest_key], inf standing for float('inf')
RECURSIVE FindClosestLoop(_, _, _, _)
FindClosestLoop(unknown_key, order, i, best) ==
    IF i > Len(order) THEN best
    ELSE LET distance == LevenshteinDistance(Lower(unknown_key), Lower(order[i]))
         IN  FindClosestLoop(unknown_key, order, i + 1,
                 IF best.inf \/ distance < best.min_distance
                 THEN [inf |-> FALSE, min_distance |-> distance, closest_key |-> order[i]]
                 ELSE best)

\* the distance threshold left out: the closest key at any distance
FindClosestKeyAnyDistance(unknown_key, order) ==
    FindClosestLoop(unknown_key, order, 1,
                    [inf |-> TRUE, min_distance |-> 0, closest_key |-> <<>>]).closest_key

\* _find_closest_key; <<>> is None
FindClosestKey(unknown_key, order) ==
    LET best == FindClosestLoop(unknown_key, order, 1,
                                [inf |-> TRUE, min_distance |-> 0, closest_key |-> <<>>])
    IN  IF ~best.inf /\ best.min_distance <= 2 THEN best.closest_key ELSE <<>>

-----------------------------------------------------------------------------
(* Python values: a dict in insertion order is a sequence of [key, value] *)

DictKeys(d) == {d[i].key : i \in 1..Len(d)}
DictGet(d, k) == d[CHOOSE i \in 1..Len(d) : d[i].key = k].value

\* d[k] = v: a new key is appended, an old one keeps its place
DictSet(d, k, v) ==
    IF k \in DictKeys(d)
    THEN [i \in 1..Len(d) |-> IF d[i].key = k THEN [key |-> k, value |-> v] ELSE d[i]]
    ELSE Append(d, [key |-> k, value |-> v])

\* str < str on lowercase words: by code point, a proper prefix first
RECURSIVE StrLess(_, _)
StrLess(a, b) ==
    IF Len(b) = 0 THEN FALSE
    ELSE IF Len(a) = 0 THEN TRUE
    ELSE IF Head(a) # Head(b) THEN Ord(Head(a)) < Ord(Head(b))
    ELSE StrLess(Tail(a), Tail(b))

\* sorted(S) for a set of lowercase words
RECURSIVE Sorted(_)
Sorted(S) ==
    IF S = {} THEN <<>>
    ELSE LET m == CHOOSE x \in S : \A y \in S : x = y \/ StrLess(x, y)
         IN  <<m>> \o Sorted(S \ {m})

-----------------------------------------------------------------------------
(* Parser *)

\* Parser.peek
PeekToken(toks, p) == IF p < Len(toks) THEN toks[p + 1] ELSE NoToken

\* Parser.advance
AdvanceToken(toks, p) == IF p >= Len(toks) THEN p ELSE p + 1

\* the position an error about the token tok is raised with
\* (tok.line if tok else self.tokens[-1].line)
ErrAt(toks, tok, type, message) ==
    IF tok = NoToken
    THEN Err(type, message, toks[Len(toks)].line, toks[Len(toks)].column)
    ELSE Err(type, message, tok.line, tok.column)

\* Parser.skip_newlines_and_comments: the position after the run
RECURSIVE SkipNewlinesAndComments(_, _)
SkipNewlinesAndComments(toks, p) ==
    IF PeekToken(toks, p) # NoToken /\ PeekToken(toks, p).type \in {"NEWLINE", "COMMENT"}
    THEN SkipNewlinesAndComments(toks, AdvanceToken(toks, p))
    ELSE p

\* f"Expected {expected}, got {actual}" without the actual
ExpectedMessage(token_type) ==
    IF token_type = "COLON" THEN "Expected COLON" ELSE "Expected token"

\* Parser.expect: the position after the token, or the error
Expect(toks, p, token_type) ==
    LET token == PeekToken(toks, p) IN
    IF token = NoToken \/ token.type # token_type
    THEN [pos |-> p, err |-> ErrAt(toks, token, "AFSyntaxError", ExpectedMessage(token_type))]
    ELSE [pos |-> AdvanceToken(toks, p), err |-> NoError]

\* Parser._get_source_line
GetSourceLine(source_lines, line_num) ==
    IF source_lines # <<>> /\ 0 < line_num /\ line_num <= Len(source_lines)
    THEN <<source_lines[line_num]>>
    ELSE <<>>

\* the unknown key check of _parse_line, with the order in which
\* _find_closest_key visits REQUIRED_KEYS
UnknownKeyError(k_token, order, source_lines) ==
    [Err("AFUnknownKeyError", "Unknown key", k_token.line, k_token.column)
        EXCEPT !.keys = <<Lower(k_token.value)>>,
               !.suggestion = FindClosestKey(Lower(k_token.value), order),
               !.source_line = GetSourceLine(source_lines, k_token.line)]

\* the line of the repeated key reported in place of the first one
DuplicateKeyErrorSecondLine(k_token, seen) ==
    [Err("AFDuplicateKeyError", "Duplicate key", k_token.line, k_token.column)
        EXCEPT !.keys = <<Lower(k_token.value)>>,
               !.first_line = k_token.line]

\* the duplicate key check of _parse_line
DuplicateKeyError(k_token, seen) ==
    [Err("AFDuplicateKeyError", "Duplicate key", k_token.line, k_token.column)
        EXCEPT !.keys = <<Lower(k_token.value)>>,
               !.first_line = seen[Lower(k_token.value)]]

\* the colon expected before the key is looked up
ParseLineKeyColonFirst(toks, p, res, seen, order, source_lines) ==
    LET k_token == PeekToken(toks, p)
        key == Lower(k_token.value)
        e == Expect(toks, p + 1, "COLON")
    IN  IF k_token = NoToken \/ k_token.type \in {"EOF", "NEWLINE", "COMMENT"}
        THEN [pos |-> p, err |-> NoError, skip |-> TRUE]
        ELSE IF k_token.type # "KEY"
        THEN [pos |-> p, skip |-> FALSE,
              err |-> IF k_token.type = "COLON"
                      THEN ErrAt(toks, k_token, "AFSyntaxError", "Empty key before ':'")
                      ELSE ErrAt(toks, k_token, "AFSyntaxError", "Expected key")]
        ELSE IF e.err # NoError
        THEN [pos |-> e.pos, skip |-> FALSE, err |-> e.err]
        ELSE IF key \notin REQUIRED_KEYS
        THEN [pos |-> p + 1, skip |-> FALSE, err |-> UnknownKeyError(k_token, order, source_lines)]
        ELSE IF key \in DictKeys(res)
        THEN [pos |-> p + 1, skip |-> FALSE, err |-> DuplicateKeyError(k_token, seen)]
        ELSE [pos |-> e.pos, skip |-> FALSE, err |-> NoError]

\* _parse_line up to and including expect(COLON): the position after the colon,
\* or the error; skip is the early return at a token that starts no line
ParseLineKey(toks, p, res, seen, order, source_lines) ==
    LET k_token == PeekToken(toks, p)
        key == Lower(k_token.value)
    IN  IF k_token = NoToken \/ k_token.type \in {"EOF", "NEWLINE", "COMMENT"}
        THEN [pos |-> p, err |-> NoError, skip |-> TRUE]
        ELSE IF k_token.type # "KEY"
        THEN [pos |-> p, skip |-> FALSE,
              err |-> IF k_token.type = "COLON"
                      THEN ErrAt(toks, k_token, "AFSyntaxError", "Empty key before ':'")
                      ELSE ErrAt(toks, k_token, "AFSyntaxError", "Expected key")]
        ELSE IF key \notin REQUIRED_KEYS
        THEN [pos |-> p + 1, skip |-> FALSE, err |-> UnknownKeyError(k_token, order, source_lines)]
        ELSE IF key \in DictKeys(res)
        THEN [pos |-> p + 1, skip |-> FALSE, err |-> DuplicateKeyError(k_token, seen)]
        ELSE LET e == Expect(toks, p + 1, "COLON")
             IN  [pos |-> e.pos, skip |-> FALSE, err |-> e.err]

\* the check for stray tokens left out
NoStrayToken(next_token) == FALSE

\* the check for stray tokens after a string value and after a list
StrayToken(next_token) ==
    next_token # NoToken /\ next_token.type \notin {"NEWLINE", "COMMENT", "EOF"}

\* Parser._parse_string_value: the value and the position after it, or the error
ParseStringValue(toks, p) ==
    LET token == PeekToken(toks, p)
        next_token == PeekToken(toks, p + 1)
    IN  IF token = NoToken \/ token.type # "STRING"
        THEN [pos |-> p, value |-> <<>>,
              err |-> IF token # NoToken /\ token.type = "KEY"
                      THEN ErrAt(toks, token, "AFSyntaxError", "String value must be quoted")
                      ELSE ErrAt(toks, token, "AFSyntaxError", "Expected string value")]
        ELSE IF StrayToken(next_token)
        THEN [pos |-> p + 1, value |-> <<>>,
              err |-> ErrAt(toks, next_token, "AFSyntaxError",
                            "Unexpected characters after string value")]
        ELSE [pos |-> p + 1, value |-> token.value, err |-> NoError]

\* _parse_list_value up to its loop: the position after '[', or the error
ParseListOpen(toks, p) ==
    LET bracket_token == PeekToken(toks, p) IN
    IF bracket_token = NoToken \/ bracket_token.type # "LBRACKET"
    THEN [pos |-> p,
          err |-> IF bracket_token # NoToken /\ bracket_token.type \in {"KEY", "STRING"}
                  THEN ErrAt(toks, bracket_token, "AFSyntaxError", "List must start with '['")
                  ELSE ErrAt(toks, bracket_token, "AFSyntaxError",
                             "Expected list value starting with '['")]
    ELSE [pos |-> p + 1, err |-> NoError]

\* what follows an item in the loop of _parse_list_value, at the position p
\* reached after the newlines and comments behind the item
AfterItem(toks, p) ==
    LET next_token == PeekToken(toks, p) IN
    IF next_token # NoToken /\ next_token.type = "COMMA"
    THEN [pos |-> p + 1, expecting |-> TRUE, brk |-> FALSE, err |-> NoError]
    ELSE IF next_token # NoToken /\ next_token.type = "RBRACKET"
    THEN [pos |-> p, expecting |-> FALSE, brk |-> TRUE, err |-> NoError]
    ELSE [pos |-> p, expecting |-> FALSE, brk |-> FALSE,
          err |-> ErrAt(toks, next_token, "AFSyntaxError",
                        "Expected comma or closing bracket in list")]

\* the check of a comma where an item is expected left out
NoEmptyItemCheck(token, expecting) == FALSE

\* the check of a comma where an item is expected
EmptyItemCheck(token, expecting) ==
    token # NoToken /\ token.type = "COMMA" /\ expecting

\* one pass of the while True loop of _parse_list_value
ParseListItem(toks, p0, its, expecting) ==
    LET p == SkipNewlinesAndComments(toks, p0)
        token == PeekToken(toks, p)
        stay(e) == [pos |-> p, items |-> its, expecting |-> expecting, brk |-> FALSE, err |-> e]
    IN  IF token # NoToken /\ token.type = "RBRACKET"
        THEN [pos |-> p, items |-> its, expecting |-> expecting, brk |-> TRUE, err |-> NoError]
        ELSE IF EmptyItemCheck(token, expecting)
        THEN stay(ErrAt(toks, token, "AFSyntaxError", "Empty item in list"))
        ELSE IF token = NoToken \/ token.type # "STRING"
        THEN IF token # NoToken /\ token.type = "KEY"
             THEN stay(ErrAt(toks, token, "AFSyntaxError", "List items must be quoted strings"))
             ELSE IF its = <<>>
             THEN stay(ErrAt(toks, token, "AFEmptyValueError", "List cannot be empty"))
             ELSE stay(ErrAt(toks, token, "AFSyntaxError", "Expected string in list"))
        ELSE LET a == AfterItem(toks, SkipNewlinesAndComments(toks, p + 1))
             IN  [pos |-> a.pos, items |-> Append(its, token.value),
                  expecting |-> a.expecting, brk |-> a.brk, err |-> a.err]

\* the empty list check left out
NoEmptyListCheck(its) == FALSE

\* the empty list check behind the closing bracket
EmptyListCheck(its) == its = <<>>

\* _parse_list_value behind its loop: the position after ']', or the error
ParseListClose(toks, p, its) ==
    LET closing_bracket == PeekToken(toks, p)
        next_token == PeekToken(toks, p + 1)
    IN  IF closing_bracket = NoToken \/ closing_bracket.type # "RBRACKET"
        THEN [pos |-> p, err |-> ErrAt(toks, closing_bracket, "AFSyntaxError",
                                       "List must end with ']'")]
        ELSE IF EmptyListCheck(its)
        THEN [pos |-> p + 1, err |-> ErrAt(toks, closing_bracket, "AFEmptyValueError",
                                           "List cannot be empty")]
        ELSE IF StrayToken(next_token)
        THEN [pos |-> p + 1, err |-> ErrAt(toks, next_token, "AFSyntaxError",
                                           "Unexpected characters after list")]
        ELSE [pos |-> p + 1, err |-> NoError]

\* the missing keys of Parser.parse: REQUIRED_KEYS - set(self.result.keys())
MissingKeys(res) == REQUIRED_KEYS \ DictKeys(res)

\* the missing keys named in canonical order, not sorted
MissingKeyErrorUnsorted(toks, res) ==
    LET last_token == IF Len(toks) > 1 THEN toks[Len(toks) - 1] ELSE toks[1]
    IN  [Err("AFMissingKeyError", "Missing required keys", last_token.line, 0)
            EXCEPT !.keys = SelectSeq(CANONICAL_KEY_ORDER, LAMBDA k : k \in MissingKeys(res))]

\* the missing keys error of Parser.parse
MissingKeyError(toks, res) ==
    LET last_token == IF Len(toks) > 1 THEN toks[Len(toks) - 1] ELSE toks[1]
    IN  [Err("AFMissingKeyError", "Missing required keys", last_token.line, 0)
            EXCEPT !.keys = Sorted(MissingKeys(res))]

\* self.result returned as it is, in insertion order
InsertionOrderResult(res) == res

\* the dict Parser.parse returns: {key: self.result[key] for key in CANONICAL_KEY_ORDER}
CanonicalResult(res) ==
    [i \in 1..Len(CANONICAL_KEY_ORDER) |->
        [key |-> CANONICAL_KEY_ORDER[i], value |-> DictGet(res, CANONICAL_KEY_ORDER[i])]]

-----------------------------------------------------------------------------
(* The documents parsed *)

MaxListBody == 3
MaxGap == 2
MaxKeyLen == 4

RECURSIVE Concat(_)
Concat(ss) == IF ss = <<>> THEN <<>> ELSE Head(ss) \o Concat(Tail(ss))

\* the sequences of at most n members of S
SeqsUpTo(S, n) == UNION {[1..m -> S] : m \in 0..n}

\* the value each key has in a well-formed entry
StdValue(k) ==
    CASE k = purpose -> <<"\"","p","\"">>
      [] k = vision  -> <<"'","v"," ","w","'">>
      [] k = must    -> <<"[","\"","m","\"","]">>
      [] k = dont    -> <<"[","\"","d","\"",","," ","'","e","'","]">>
      [] k = nice    -> <<"[","'","n","'","]">>

EntryText(spelling, value) == spelling \o <<":">> \o value \o <<"\n">>
Entry(k) == EntryText(k, StdValue(k))

\* the canonical document with the entry of key k replaced by text
Replaced(k, text) ==
    Concat([i \in 1..5 |-> IF CANONICAL_KEY_ORDER[i] = k THEN text
                           ELSE Entry(CANONICAL_KEY_ORDER[i])])

\* the canonical document with text put in before its entry p + 1
Inserted(p, text) ==
    Concat([i \in 1..6 |-> IF i <= p THEN Entry(CANONICAL_KEY_ORDER[i])
                           ELSE IF i = p + 1 THEN text
                           ELSE Entry(CANONICAL_KEY_ORDER[i - 1])])

\* every arrangement of distinct keys, each with its well-formed entry
OrderDocs ==
    {Concat([i \in 1..Len(o) |-> Entry(o[i])]) :
        o \in UNION {IterationOrders(S) : S \in SUBSET REQUIRED_KEYS}}

\* a list entry whose body is any run of items, commas, newlines and comments,
\* closed or not
ListAtoms == {<<"\"","a","\"">>, <<"'","b","'">>, <<",">>, <<"\n">>, <<"#","c","\n">>}
ListDocs ==
    {Replaced(k, k \o <<":","[">> \o Concat(body) \o close \o <<"\n">>) :
        k \in LIST_KEYS, body \in SeqsUpTo(ListAtoms, MaxListBody), close \in {<<"]">>, <<>>}}

\* an entry whose value starts after any run of blanks, newlines and comments
GapAtoms == {<<" ">>, <<"\n">>, <<"#","c","\n">>}
GapDocs ==
    {Replaced(k, k \o <<":">> \o Concat(gap) \o StdValue(k) \o <<"\n">>) :
        k \in {purpose, must}, gap \in SeqsUpTo(GapAtoms, MaxGap)}

\* keys in other spellings: other casings of the five keys, and unknown keys
CasedKeys == {<<"P","U","R","P","O","S","E">>, <<"p","U","r","P","o","S","e">>,
              <<"V","i","s","i","o","n">>, <<"M","U","S","T">>, <<"D","o","n","t">>,
              <<"n","i","c","E">>}
UnknownKeys == {<<"p","o","u","r","p","o","s","e">>, <<"v","i","s","s","i","o","n">>,
                <<"m","u","t","s">>, <<"d","i","s","t">>, <<"n","o","n","e">>,
                <<"N","i","c","e","s","t">>, <<"x","y","z">>, <<"w","r","o","n","g","_","1">>}
SpellingValue(s) ==
    IF Lower(s) \in REQUIRED_KEYS THEN StdValue(Lower(s)) ELSE <<"\"","x","\"">>
KeyDocs ==
    {Replaced(Lower(s), EntryText(s, SpellingValue(s))) : s \in CasedKeys}
    \cup {Inserted(p, EntryText(s, SpellingValue(s))) :
            p \in 0..5, s \in REQUIRED_KEYS \cup CasedKeys \cup UnknownKeys}

\* empty quoted strings as a value, as a list item, in a comment and inside a
\* string quoted the other way
EmptyStringTexts ==
    {<<"p","u","r","p","o","s","e",":","\"","\"","\n">>,
     <<"p","u","r","p","o","s","e",":","'","'","\n">>,
     <<"p","u","r","p","o","s","e",":","\"","p","\""," ","#","\"","\"","\n">>,
     <<"p","u","r","p","o","s","e",":","\"","'","'","\"","\n">>,
     <<"p","u","r","p","o","s","e",":","'","\"","\"","'","\n">>,
     <<"p","u","r","p","o","s","e",":","\"","p","\"","\"","\"","\n">>,
     <<"p","u","r","p","o","s","e",":","\"","\\","\"","\"","\n">>,
     <<"\"","\"",":","\"","p","\"","\n">>,
     <<"p","u","r","p","o","s","e",":","[","'","'","]","\n">>}
EmptyStringDocs ==
    {Replaced(purpose, t) : t \in EmptyStringTexts}
    \cup {Replaced(k, k \o <<":","[">> \o t \o <<"]","\n">>) :
            k \in {must, nice},
            t \in {<<"\"","\"">>, <<"\"","a","\"",",","'","'">>, <<"\"","a","\"","\n","\"","\"">>}}
    \cup {Inserted(p, <<"v","i","s","i","o","n",":","\"","\"","\n">>) : p \in {0, 5}}

\* the canonical document with each line ended by ending, and then a repeated key
LineEndingDocs ==
    {Concat([i \in 1..6 |-> CANONICAL_KEY_ORDER[((i - 1) % 5) + 1] \o <<":">>
                             \o StdValue(CANONICAL_KEY_ORDER[((i - 1) % 5) + 1]) \o ending]) :
        ending \in {<<"\r","\n">>, <<"\r">>}}
    \cup {<<"p","u","r","p","o","s","e",":","\"","p","\"">> \o ending
          \o <<"v","i","s","i","o","n",":"," ","\"","\"">> : ending \in {<<"\r","\n">>, <<"\r">>}}

\* the canonical document with something between a value and the end of its line
TrailingTexts ==
    {<<>>, <<"\r">>, <<" ","#","c">>, <<" ","w">>, <<" ","\"","s","\"">>, <<",">>, <<":">>,
     <<" ","[">>, <<"]">>, <<" ">> \o vision \o <<":">> \o StdValue(vision),
     <<" ">> \o nice \o <<":">> \o StdValue(nice)}
TrailingDocs ==
    {Replaced(k, k \o <<":">> \o StdValue(k) \o t \o <<"\n">>) :
        k \in {purpose, dont}, t \in TrailingTexts}

\* runs of spaces and tabs around the tokens of an entry and at the end of the
\* input, and inputs of nothing else
Blanks == {<<>>, <<"\t">>, <<" ", "\t">>}
BlankDocs ==
    {Replaced(k, k \o b1 \o <<":">> \o b2 \o StdValue(k) \o b3 \o <<"\n">>) \o b4 :
        k \in {purpose, must}, b1 \in Blanks, b2 \in Blanks, b3 \in Blanks, b4 \in Blanks}
    \cup (Blanks \ {<<>>})

\* behind the entry of purpose, a line that starts with a key seen, a key not
\* seen yet, an unknown key or a token that is no key, and goes on with or
\* without a colon and with a value, a malformed one or none
LineStarts ==
    {purpose, <<"P","u","r","p","o","s","e">>, vision, must,
     <<"p","o","u","r","p","o","s","e">>, <<"x","y","z">>,
     <<":">>, <<"[">>, <<"\"","s","\"">>, <<",">>}
LineRests ==
    {<<>>, <<"\n">>, <<":">>, <<":", " ", "x">>, <<" ", "\"","v","\"">>, <<" ", "[">>,
     <<":", "[">>, <<":", "]">>, <<":", ":", "\"","v","\"">>, <<":", "\"","v","\"">>,
     <<":", "[", "\"","v","\"", "]">>}
CheckOrderDocs ==
    {Entry(purpose) \o start \o rest : start \in LineStarts, rest \in LineRests}

\* behind the entry of purpose and a line ending, a comment or blanks, a word
\* that starts with a letter, an underscore, a digit, a hyphen or a character
\* that starts no token
WordStarts == {"a", "_", "1", "-", "@", ".", "\\", "$"}
WordLeads == {<<>>, <<" ", "\t">>, <<"\r">>, <<"\r", "\n">>, <<"#", "c", "\n">>}
WordDocs ==
    {Entry(purpose) \o lead \o <<ch>> \o rest :
        lead \in WordLeads, ch \in WordStarts,
        rest \in {<<>>, <<"1">>, <<"-", "a", "_", "2", ":">>}}

\* a comment behind the value of purpose or on the line before it, holding
\* quotes, a '#' and punctuation, ended by each line terminator or by the end
\* of the input; and values that hold a '#'
CommentBodies ==
    {<<>>, <<"c">>, <<"i", "t", "'", "s">>, <<" ", "\"", "x">>, <<"#", "c">>,
     <<"k", ":", "[", "\"", "a", "\"", "]">>}
CommentDocs ==
    {Replaced(purpose, <<"p","u","r","p","o","s","e",":","\"","p","\""," ","#">>
                       \o body \o ending) :
        body \in CommentBodies, ending \in {<<"\n">>, <<"\r", "\n">>, <<"\r">>}}
    \cup {<<"#">> \o body \o <<"\n">> \o Replaced(purpose, Entry(purpose)) \o <<"#">> \o body :
            body \in CommentBodies}
    \cup {Replaced(purpose, EntryText(purpose, <<"\"", "a", "#", "b", "\"">>)),
          Replaced(purpose, EntryText(purpose, <<"'", "#", "'", "#", "'", "c", "'">>)),
          Replaced(must, EntryText(must, <<"[", "'", "#", "a", "'", ",", "#", "'", "c", "\n",
                                           "\"", "b", "#", "\"", "]">>))}

\* lines the parser refuses (an unknown key, a repeated key, a missing colon,
\* characters behind a value), and behind them a line the tokenizer refuses
\* (a character that starts no token, a string that does not end, an empty
\* string, a backslash at the end of the input)
RefusedByParser ==
    {<<"p","o","u","r","p","o","s","e",":","\"","x","\"","\n">>,
     Entry(purpose) \o Entry(purpose),
     <<"p","u","r","p","o","s","e"," ","\"","p","\"","\n">>,
     <<"p","u","r","p","o","s","e",":","\"","p","\""," ","x","\n">>}
RefusedByTokenizer ==
    {<<"@">>, <<"v","i","s","i","o","n",":","\"","v">>, <<"v","i","s","i","o","n",":","'","'">>,
     <<"v","i","s","i","o","n",":","\"","v","\\">>}
LexicalAfterDocs ==
    {first \o second : first \in RefusedByParser, second \in RefusedByTokenizer}

\* a first line that ends in "\n", "\r\n" or a lone "\r", or whose string or
\* comment holds one of them, and behind it a line of the unknown key pourpose,
\* at the start of the line or behind two spaces
FirstLines ==
    {<<"p","u","r","p","o","s","e",":","\"","p","\"">> \o ending :
        ending \in {<<"\n">>, <<"\r","\n">>, <<"\r">>}}
    \cup {<<"p","u","r","p","o","s","e",":","\"","p">> \o inside \o <<"q","\"","\n">> :
             inside \in {<<"\n">>, <<"\r","\n">>, <<"\r">>}}
    \cup {<<"#","c","\r","\r">>, <<"#","c","\r","\n">>}
UnknownKeyLineDocs ==
    {first \o indent \o <<"p","o","u","r","p","o","s","e",":","\"","x","\"","\n">> :
        first \in FirstLines, indent \in {<<>>, <<" ", " ">>}}

Documents ==
    OrderDocs \cup ListDocs \cup GapDocs \cup KeyDocs \cup EmptyStringDocs \cup LineEndingDocs
        \cup TrailingDocs \cup BlankDocs \cup CheckOrderDocs \cup WordDocs \cup CommentDocs
        \cup LexicalAfterDocs \cup UnknownKeyLineDocs

-----------------------------------------------------------------------------
(* validate_af_content: Tokenizer(content).tokenize(), then Parser(tokens).parse() *)

\* What a caller hands to an entry point: the entry point, the number of
\* characters of the text and the number of bytes of its UTF-8 encoding.
Given(entry, chars, bytes) == [entry |-> entry, chars |-> chars, bytes |-> bytes]

\* The source and stream arguments of load_input: <<>> for None, <<path>> for a
\* path and <<"stdin">> for sys.stdin.
Args(source, stream) == [source |-> source, stream |-> stream]
NoArgs == Args(<<>>, <<>>)

\* What the path names, or the stream holds: whether the path exists, whether
\* it is a directory, whether its bytes decode as UTF-8; the accesses made to
\* it so far; and, where a command reads it more than once, its text.
Io(exists, is_dir, utf8) ==
    [exists |-> exists, is_dir |-> is_dir, utf8 |-> utf8, accesses |-> <<>>, text |-> <<>>]
NoIo == Io(FALSE, FALSE, TRUE)
TextFile == Io(TRUE, FALSE, TRUE)

\* A command of cli.py on its FILE argument, with what it wrote and its exit
\* code (-1 while it runs); before holds the command run on the same FILE
\* before this one, as it ended.
Cli(command, file) ==
    [command |-> command, file |-> file, stdout |-> <<>>, stderr |-> <<>>,
     exit_code |-> -1, before |-> <<>>]
NoCli == Cli("None", <<>>)

\* no second call in the process
NoConc == [phase |-> "none"]

Init ==
    /\ content \in Documents
    /\ tpos = 0 /\ tline = 1 /\ tcolumn = 1
    /\ tokens = <<>>
    /\ pos = 0 /\ result = <<>> /\ seen_keys = <<>>
    /\ key_token = NoToken /\ items = <<>> /\ expecting_item = FALSE
    /\ pc = "tokenize"
    /\ returned = <<>> /\ error = NoError
    /\ key1 = <<>> /\ suggested = <<>>
    /\ input = Given("validate_af_content", Len(content), Len(content))
    /\ args = NoArgs /\ io = NoIo /\ cli = NoCli /\ conc = NoConc

\* the diagnostic noted and the run going on
NoteAndGoOn(e) == error' = e /\ UNCHANGED pc

\* raise e out of validate_af_content
Raise(e) == error' = e /\ pc' = "done"

\* one pass of the loop of Tokenizer.tokenize: a call of _next_token
NextToken ==
    /\ pc = "tokenize" /\ tpos < Len(content)
    /\ LET r == NextTokenFrom(content, [pos |-> tpos, line |-> tline, column |-> tcolumn])
       IN  /\ tpos' = r.state.pos /\ tline' = r.state.line /\ tcolumn' = r.state.column
           /\ tokens' = tokens \o r.tok
           /\ IF r.err # NoError THEN Raise(r.err) ELSE UNCHANGED <<pc, error>>
    /\ UNCHANGED <<content, pos, result, seen_keys, key_token, items, expecting_item,
                   returned, key1, suggested, input, args, io, cli, conc>>

\* the end of Tokenizer.tokenize, and Parser.__init__ on its tokens
TokenizeEnd ==
    /\ pc = "tokenize" /\ tpos >= Len(content)
    /\ tokens' = Append(tokens, Token("EOF", <<>>, tline, tcolumn))
    /\ pos' = 0 /\ result' = <<>> /\ seen_keys' = <<>>
    /\ pc' = "parse"
    /\ UNCHANGED <<content, tpos, tline, tcolumn, key_token, items, expecting_item,
                   returned, error, key1, suggested, input, args, io, cli, conc>>

\* the loop of Parser.parse never left
AtEndNever == FALSE

\* the test of the while loop of Parser.parse, negated
AtEnd == PeekToken(tokens, pos) = NoToken \/ PeekToken(tokens, pos).type = "EOF"

\* the loop of Parser.parse up to its call of _parse_line
SkipTopLevel ==
    /\ pc = "parse" /\ ~AtEnd
    /\ pos' = SkipNewlinesAndComments(tokens, pos)
    /\ pc' = IF PeekToken(tokens, pos') # NoToken /\ PeekToken(tokens, pos').type # "EOF"
             THEN "line" ELSE "parse"
    /\ UNCHANGED <<content, tpos, tline, tcolumn, tokens, result, seen_keys, key_token,
                   items, expecting_item, returned, error, key1, suggested, input, args, io, cli, conc>>

\* The orders _find_closest_key may visit REQUIRED_KEYS in; only an unknown key
\* reaches it.
OrdersAt(toks, p) ==
    IF PeekToken(toks, p).type = "KEY" /\ Lower(PeekToken(toks, p).value) \notin REQUIRED_KEYS
    THEN RequiredKeyOrders ELSE {CANONICAL_KEY_ORDER}

\* _parse_line from its start to the colon
ParseLine ==
    /\ pc = "line"
    /\ \E order \in OrdersAt(tokens, pos) :
         LET r == ParseLineKey(tokens, pos, result, seen_keys, order, SplitLines(content))
         IN  /\ pos' = r.pos
             /\ IF r.err # NoError THEN Raise(r.err) /\ UNCHANGED key_token
                ELSE IF r.skip THEN pc' = "parse" /\ UNCHANGED <<error, key_token>>
                ELSE pc' = "value" /\ key_token' = PeekToken(tokens, pos) /\ UNCHANGED error
    /\ UNCHANGED <<content, tpos, tline, tcolumn, tokens, result, seen_keys,
                   items, expecting_item, returned, key1, suggested, input, args, io, cli, conc>>

\* the end of _parse_line: store the value, remember the line, skip to the next line
Store(value, p) ==
    /\ result' = DictSet(result, Lower(key_token.value), value)
    /\ seen_keys' = (Lower(key_token.value) :> key_token.line) @@ seen_keys
    /\ pos' = SkipNewlinesAndComments(tokens, p)
    /\ pc' = "parse"

\* _parse_line for a key of STRING_KEYS: _parse_string_value, and the end
ParseString ==
    /\ pc = "value" /\ Lower(key_token.value) \in STRING_KEYS
    /\ LET r == ParseStringValue(tokens, pos)
       IN  IF r.err # NoError
           THEN Raise(r.err) /\ pos' = r.pos /\ UNCHANGED <<result, seen_keys>>
           ELSE Store(r.value, r.pos) /\ UNCHANGED error
    /\ UNCHANGED <<content, tpos, tline, tcolumn, tokens, key_token,
                   items, expecting_item, returned, key1, suggested, input, args, io, cli, conc>>

\* _parse_line for a key of LIST_KEYS: _parse_list_value up to its loop
ListOpen ==
    /\ pc = "value" /\ Lower(key_token.value) \in LIST_KEYS
    /\ LET r == ParseListOpen(tokens, pos)
       IN  /\ pos' = r.pos
           /\ IF r.err # NoError
              THEN Raise(r.err) /\ UNCHANGED <<items, expecting_item>>
              ELSE pc' = "list_item" /\ items' = <<>> /\ expecting_item' = TRUE
                   /\ UNCHANGED error
    /\ UNCHANGED <<content, tpos, tline, tcolumn, tokens, result, seen_keys, key_token,
                   returned, key1, suggested, input, args, io, cli, conc>>

\* one pass of the loop of _parse_list_value
ListItem ==
    /\ pc = "list_item"
    /\ LET r == ParseListItem(tokens, pos, items, expecting_item)
       IN  /\ pos' = r.pos /\ items' = r.items /\ expecting_item' = r.expecting
           /\ IF r.err # NoError THEN Raise(r.err)
              ELSE pc' = (IF r.brk THEN "list_close" ELSE "list_item") /\ UNCHANGED error
    /\ UNCHANGED <<content, tpos, tline, tcolumn, tokens, result, seen_keys, key_token,
                   returned, key1, suggested, input, args, io, cli, conc>>

\* _parse_list_value behind its loop, and the end of _parse_line
ListClose ==
    /\ pc = "list_close"
    /\ LET r == ParseListClose(tokens, pos, items)
       IN  IF r.err # NoError
           THEN Raise(r.err) /\ pos' = r.pos /\ UNCHANGED <<result, seen_keys>>
           ELSE Store(items, r.pos) /\ UNCHANGED error
    /\ UNCHANGED <<content, tpos, tline, tcolumn, tokens, key_token,
                   items, expecting_item, returned, key1, suggested, input, args, io, cli, conc>>

\* Parser.parse behind its loop: the missing keys check and the return
ParseEnd ==
    /\ pc = "parse" /\ AtEnd
    /\ IF MissingKeys(result) # {}
       THEN Raise(MissingKeyError(tokens, result)) /\ UNCHANGED returned
       ELSE returned' = CanonicalResult(result) /\ pc' = "done" /\ UNCHANGED error
    /\ UNCHANGED <<content, tpos, tline, tcolumn, tokens, pos, result, seen_keys, key_token,
                   items, expecting_item, key1, suggested, input, args, io, cli, conc>>

Next ==
    \/ NextToken
    \/ TokenizeEnd
    \/ SkipTopLevel
    \/ ParseLine
    \/ ParseString
    \/ ListOpen
    \/ ListItem
    \/ ListClose
    \/ ParseEnd

Spec == Init /\ [][Next]_vars

\* validate_af_content runs on: a call that has not ended goes on taking
\* steps.  This is WF_vars(Next) with ENABLED <<Next>>_vars written as
\* pc # "done".
SpecRunsOn == Spec /\ ([]<>(pc = "done") \/ []<><<Next>>_vars)

-----------------------------------------------------------------------------
(* validate_af_content on documents whose purpose is any short run of        *)
(* characters between quotes, closed or running to the end of the input      *)

MaxStringBody == 3

StringChars == {"a", "n", "t", "\\", "\"", "'", "\n", "\r"}

\* purpose: and an opening quote, the body, and then nothing, or the closing
\* quote alone, or the closing quote and a vision entry on the next line
StringDocs ==
    {purpose \o <<":">> \o <<q>> \o body \o
        (CASE tail = "open" -> <<>>
           [] tail = "closed" -> <<q>>
           [] tail = "entry" -> <<q, "\n">> \o Entry(vision)) :
        q \in {"\"", "'"},
        body \in SeqsUpTo(StringChars, MaxStringBody),
        tail \in {"open", "closed", "entry"}}

InitStrings ==
    /\ content \in StringDocs \cup {Replaced(purpose, Entry(purpose))}
    /\ tpos = 0 /\ tline = 1 /\ tcolumn = 1
    /\ tokens = <<>>
    /\ pos = 0 /\ result = <<>> /\ seen_keys = <<>>
    /\ key_token = NoToken /\ items = <<>> /\ expecting_item = FALSE
    /\ pc = "tokenize"
    /\ returned = <<>> /\ error = NoError
    /\ key1 = <<>> /\ suggested = <<>>
    /\ input = Given("validate_af_content", Len(content), Len(content))
    /\ args = NoArgs /\ io = NoIo /\ cli = NoCli /\ conc = NoConc

SpecStrings == InitStrings /\ [][Next]_vars

-----------------------------------------------------------------------------
(* The entry points: the size check, the decoding and the BOM, up to the     *)
(* tokenizer.  The text given is content followed by the rest of a trailing  *)
(* comment whose characters are counted in input but not spelled out.        *)

MAX_INPUT_SIZE == 1048576

\* U+FEFF, one character of three UTF-8 bytes
BOM == "BOM"

\* len(content.encode('utf-8')) of the spelled-out text
RECURSIVE Utf8Len(_)
Utf8Len(c) ==
    IF c = <<>> THEN 0 ELSE (IF Head(c) = BOM THEN 3 ELSE 1) + Utf8Len(Tail(c))

\* _strip_utf8_bom
StripUtf8Bom(c) == IF c # <<>> /\ Head(c) = BOM THEN Tail(c) ELSE c

\* what open(source, 'r', encoding='utf-8').read() makes of the line endings:
\* "\r\n" and "\r" are read as "\n"; st is [i, out]
RECURSIVE TranslateLoop(_, _)
TranslateLoop(c, st) ==
    IF st.i > Len(c) THEN st.out
    ELSE IF c[st.i] = "\r"
    THEN TranslateLoop(c, [i |-> IF st.i < Len(c) /\ c[st.i + 1] = "\n"
                                 THEN st.i + 2 ELSE st.i + 1,
                           out |-> Append(st.out, "\n")])
    ELSE TranslateLoop(c, [i |-> st.i + 1, out |-> Append(st.out, c[st.i])])

TranslateNewlines(c) == TranslateLoop(c, [i |-> 1, out |-> <<>>])

\* the size limit rounded down by one: a size equal to the limit is too large
TooLargeFromLimit(size) == size >= MAX_INPUT_SIZE

\* the comparison of each size check
TooLarge(size) == size > MAX_INPUT_SIZE

SizeError == Err("AFSizeError", "Input too large", 0, 0)

\* the text goes to Tokenizer(content)
ToTokenizer(c) == content' = c /\ pc' = "tokenize" /\ UNCHANGED error

\* validate_af_content up to the tokenizer
ValidateAfContent ==
    /\ pc = "load" /\ input.entry = "validate_af_content"
    /\ IF TooLarge(input.bytes)
       THEN Raise(SizeError) /\ UNCHANGED content
       ELSE ToTokenizer(StripUtf8Bom(content))
    /\ UNCHANGED <<tpos, tline, tcolumn, tokens, pos, result, seen_keys, key_token,
                   items, expecting_item, returned, key1, suggested, input, args, io, cli, conc>>

\* what load_input gives: the text it returns or the exception it raises, and
\* the accesses it made
Loaded(text, made) == [err |-> NoError, text |-> text, accesses |-> made]
LoadFailed(e, made) == [err |-> e, text |-> <<>>, accesses |-> made]

\* the check of the size after reading, and the BOM stripped from what is returned
LoadRecheck(c, bytes, made) ==
    IF TooLarge(bytes) THEN LoadFailed(SizeError, made)
    ELSE Loaded(StripUtf8Bom(c), made)

\* the check of the arguments left to the branches
AnyArguments(a) == FALSE

\* the check of the arguments of load_input: neither or both given
BadArguments(a) == (a.source = <<>>) = (a.stream = <<>>)

\* load_input(source, stream) where the text given is c, of the size in, and
\* the path or the stream is as w says
LoadInput(a, c, in, w) ==
    IF BadArguments(a)
    THEN LoadFailed(Err("ValueError", "Exactly one of source or stream must be provided", 0, 0),
                    <<>>)
    ELSE IF a.source # <<>> /\ a.source[1] # <<>>
    THEN IF ~w.exists
         THEN LoadFailed(Err("FileNotFoundError", "File not found", 0, 0), <<"exists">>)
         ELSE IF TooLarge(in.bytes)
         THEN LoadFailed(SizeError, <<"exists", "stat">>)
         ELSE IF w.is_dir
         THEN LoadFailed(Err("IsADirectoryError", "Is a directory", 0, 0),
                         <<"exists", "stat", "open">>)
         ELSE IF ~w.utf8
         THEN LoadFailed(Err("AFParseError", "File must be UTF-8 encoded", 0, 0),
                         <<"exists", "stat", "open", "read">>)
         ELSE LET read == TranslateNewlines(c)
              IN  LoadRecheck(read, in.bytes - (Len(c) - Len(read)),
                              <<"exists", "stat", "open", "read">>)
    ELSE IF a.stream = <<>>
    THEN LoadFailed(Err("AttributeError", "'NoneType' object has no attribute 'read'", 0, 0),
                    <<>>)
    ELSE IF ~w.utf8
    THEN LoadFailed(Err("AFParseError", "Input must be UTF-8 encoded", 0, 0), <<"read">>)
    ELSE LET read == IF in.chars <= MAX_INPUT_SIZE + 1 THEN in.chars ELSE MAX_INPUT_SIZE + 1
         IN  IF TooLarge(read) THEN LoadFailed(SizeError, <<"read">>)
             ELSE LoadRecheck(c, in.bytes, <<"read">>)

Accessed(made) == io' = [io EXCEPT !.accesses = io.accesses \o made]

\* parse_af_file behind its checks of the path, up to the tokenizer:
\* load_input(source=filepath)
ParseAfFile ==
    /\ pc = "load" /\ input.entry = "parse_af_file"
    /\ LET r == LoadInput(args, content, input, io)
       IN  /\ Accessed(r.accesses)
           /\ IF r.err # NoError THEN Raise(r.err) /\ UNCHANGED content
              ELSE ToTokenizer(r.text)
    /\ UNCHANGED <<tpos, tline, tcolumn, tokens, pos, result, seen_keys, key_token,
                   items, expecting_item, returned, key1, suggested, input, args, cli, conc>>

\* parse_af_stdin where sys.stdin has a buffer, up to the tokenizer
ParseAfStdin ==
    /\ pc = "load" /\ input.entry = "parse_af_stdin"
    /\ Accessed(<<"read">>)
    /\ IF TooLarge(input.bytes)
       THEN Raise(SizeError) /\ UNCHANGED content
       ELSE IF ~io.utf8
       THEN Raise(Err("AFParseError", "Input must be UTF-8 encoded", 0, 0)) /\ UNCHANGED content
       ELSE ToTokenizer(StripUtf8Bom(content))
    /\ UNCHANGED <<tpos, tline, tcolumn, tokens, pos, result, seen_keys, key_token,
                   items, expecting_item, returned, key1, suggested, input, args, cli, conc>>

\* parse_af_stdin where sys.stdin is a text stream without a buffer, up to the
\* tokenizer: load_input(stream=sys.stdin), and the BOM stripped from its text
ParseAfStdinText ==
    /\ pc = "load" /\ input.entry = "parse_af_stdin_text"
    /\ LET r == LoadInput(args, content, input, io)
       IN  /\ Accessed(r.accesses)
           /\ IF r.err # NoError THEN Raise(r.err) /\ UNCHANGED content
              ELSE ToTokenizer(StripUtf8Bom(r.text))
    /\ UNCHANGED <<tpos, tline, tcolumn, tokens, pos, result, seen_keys, key_token,
                   items, expecting_item, returned, key1, suggested, input, args, cli, conc>>

MaxBoms == 2
MaxOver == 2
MaxWide == 2

EntryPoints == {"validate_af_content", "parse_af_file", "parse_af_stdin",
                "parse_af_stdin_text"}

Boms(n) == [i \in 1..n |-> BOM]

\* the path parse_af_file is called with
FilePath == <<"x", ".", "a", "f">>

\* the arguments with which each entry point calls load_input, if it does
ArgsOf(entry) ==
    CASE entry = "parse_af_file" -> Args(<<FilePath>>, <<>>)
      [] entry = "parse_af_stdin_text" -> Args(<<>>, <<"stdin">>)
      [] OTHER -> NoArgs

\* the canonical document in "\n" lines; one in "\r\n" lines whose purpose is a
\* string of two lines; one with a lone "\r" in that string; each ends in the
\* start of a comment
LoadBodies ==
    {Replaced(purpose, Entry(purpose)) \o <<"#">>,
     Concat([i \in 1..5 |-> IF i = 1
                  THEN <<"p","u","r","p","o","s","e",":","\"","p","\r","\n","q","\"","\r","\n">>
                  ELSE CANONICAL_KEY_ORDER[i] \o <<":">> \o StdValue(CANONICAL_KEY_ORDER[i])
                       \o <<"\r","\n">>]) \o <<"#">>,
     Replaced(purpose, <<"p","u","r","p","o","s","e",":","\"","p","\r","q","\"","\n">>)
       \o <<"#">>}

InitLoad ==
    /\ \E n \in 0..MaxBoms, body \in LoadBodies, wide \in 0..MaxWide,
          bytes \in (MAX_INPUT_SIZE - MaxOver)..(MAX_INPUT_SIZE + MaxOver),
          entry \in EntryPoints :
          /\ content = Boms(n) \o body
          /\ input = Given(entry, bytes - 2 * n - wide, bytes)
          /\ args = ArgsOf(entry)
    /\ tpos = 0 /\ tline = 1 /\ tcolumn = 1
    /\ tokens = <<>>
    /\ pos = 0 /\ result = <<>> /\ seen_keys = <<>>
    /\ key_token = NoToken /\ items = <<>> /\ expecting_item = FALSE
    /\ pc = "load"
    /\ returned = <<>> /\ error = NoError
    /\ key1 = <<>> /\ suggested = <<>>
    /\ io = TextFile /\ cli = NoCli /\ conc = NoConc

NextLoad ==
    \/ ValidateAfContent
    \/ ParseAfFile
    \/ ParseAfStdin
    \/ ParseAfStdinText
    \/ Next

SpecLoad == InitLoad /\ [][NextLoad]_vars

-----------------------------------------------------------------------------
(* The commands run and validate of cli.py, each called on the same FILE in  *)
(* a process of its own                                                      *)

\* Path(filepath).name: what stands behind the last "/"
RECURSIVE PathName(_)
PathName(path) ==
    IF \E i \in 1..Len(path) : path[i] = "/"
    THEN PathName(SubSeq(path, (CHOOSE i \in 1..Len(path) : path[i] = "/") + 1, Len(path)))
    ELSE path

\* Path(filepath).suffix: the name from its last "." on, unless that "." is the
\* first or the last character of the name
Suffix(path) ==
    LET name == PathName(path)
        dots == {i \in 1..Len(name) : name[i] = "."}
        i == IF dots = {} THEN 0 ELSE CHOOSE d \in dots : \A e \in dots : e <= d
    IN  IF 1 < i /\ i < Len(name) THEN SubSeq(name, i, Len(name)) ELSE <<>>

\* the suffix compared as it is written
HasAfSuffixAsWritten(path) == Suffix(path) = <<".", "a", "f">>

\* path.suffix.lower() == '.af'
HasAfSuffix(path) == Lower(Suffix(path)) = <<".", "a", "f">>

\* parse_af_file up to its call of load_input: the path exists and has the suffix
ParseAfFilePath ==
    /\ pc = "path" /\ input.entry = "parse_af_file"
    /\ Accessed(<<"exists">>)
    /\ IF ~io.exists THEN Raise(Err("FileNotFoundError", "File not found", 0, 0))
       ELSE IF ~HasAfSuffix(args.source[1])
       THEN Raise(Err("AFParseError", "File must have .af extension", 1, 0))
       ELSE pc' = "load" /\ UNCHANGED error
    /\ UNCHANGED <<content, tpos, tline, tcolumn, tokens, pos, result, seen_keys, key_token,
                   items, expecting_item, returned, key1, suggested, input, args, cli, conc>>

\* json.dumps of one character of a str, ensure_ascii=False
JsonChar(c) ==
    CASE c = "\"" -> <<"\\", "\"">>
      [] c = "\\" -> <<"\\", "\\">>
      [] c = "\n" -> <<"\\", "n">>
      [] c = "\r" -> <<"\\", "r">>
      [] c = "\t" -> <<"\\", "t">>
      [] OTHER -> <<c>>

\* json.dumps of a str
JsonString(str) ==
    <<"\"">> \o Concat([i \in 1..Len(str) |-> JsonChar(str[i])]) \o <<"\"">>

\* json.dumps of a list of str as a member's value, indent=2
JsonList(list) ==
    IF list = <<>> THEN <<"[", "]">>
    ELSE <<"[">>
         \o Concat([i \in 1..Len(list) |->
                (IF i = 1 THEN <<"\n">> ELSE <<",", "\n">>)
                \o <<" ", " ", " ", " ">> \o JsonString(list[i])])
         \o <<"\n", " ", " ", "]">>

\* json.dumps(ordered_output, indent=2, ensure_ascii=False) of a dict whose
\* values are a str under the keys of STRING_KEYS and a list of str otherwise
JsonDumps(d) ==
    IF d = <<>> THEN <<"{", "}">>
    ELSE <<"{">>
         \o Concat([i \in 1..Len(d) |->
                (IF i = 1 THEN <<"\n">> ELSE <<",", "\n">>)
                \o <<" ", " ">> \o JsonString(d[i].key) \o <<":", " ">>
                \o (IF d[i].key \in STRING_KEYS THEN JsonString(d[i].value)
                    ELSE JsonList(d[i].value))])
         \o <<"\n", "}">>

\* CANONICAL_KEY_ORDER of cli.py
CLI_CANONICAL_KEY_ORDER == <<purpose, vision, must, dont, nice>>

\* what typer.secho(..., err=True) writes: the prefix and the exception
Shown(prefix, e) == [prefix |-> prefix, error |-> e]

\* the except clauses of run and of validate
Handled(e) ==
    IF e.type = "FileNotFoundError" THEN Shown("Error: File not found: ", e)
    ELSE IF e.type \in {"AFSizeError", "AFParseError", "AFMissingKeyError",
                        "AFDuplicateKeyError", "AFUnknownKeyError", "AFSyntaxError",
                        "AFEmptyValueError"}
    THEN Shown("Error: ", e)
    ELSE Shown("Unexpected error: ", e)

Commands == {"run", "validate"}

\* the shell starts the command c on FILE in a new process, and the command
\* calls parse_af_stdin or parse_af_file
Call(c) ==
    /\ pc = "shell" /\ cli.command # c /\ cli.before = <<>>
    /\ cli' = [Cli(c, cli.file) EXCEPT
                  !.before = IF cli.command = "None" THEN <<>> ELSE <<cli>>]
    /\ content' = io.text
    /\ io' = [io EXCEPT !.accesses = <<>>]
    /\ tpos' = 0 /\ tline' = 1 /\ tcolumn' = 1
    /\ tokens' = <<>>
    /\ pos' = 0 /\ result' = <<>> /\ seen_keys' = <<>>
    /\ key_token' = NoToken /\ items' = <<>> /\ expecting_item' = FALSE
    /\ returned' = <<>> /\ error' = NoError
    /\ IF cli.file = <<"-">>
       THEN /\ input' = [input EXCEPT !.entry = "parse_af_stdin"]
            /\ args' = NoArgs
            /\ pc' = "load"
       ELSE /\ input' = [input EXCEPT !.entry = "parse_af_file"]
            /\ args' = Args(<<cli.file>>, <<>>)
            /\ pc' = "path"
    /\ UNCHANGED <<key1, suggested, conc>>

\* the command ends with the exit code 0 whatever happened
EndedWell(out, err, code) ==
    /\ cli' = [cli EXCEPT !.stdout = out, !.stderr = err, !.exit_code = 0]
    /\ pc' = "shell"

\* the command ends: what it writes and its exit code
Ended(out, err, code) ==
    /\ cli' = [cli EXCEPT !.stdout = out, !.stderr = err, !.exit_code = code]
    /\ pc' = "shell"

\* run behind its call: the JSON echoed, or the except clause taken
RunEnd ==
    /\ pc = "done" /\ cli.command = "run"
    /\ IF error = NoError
       THEN LET ordered_output ==
                    [i \in 1..Len(CLI_CANONICAL_KEY_ORDER) |->
                        [key |-> CLI_CANONICAL_KEY_ORDER[i],
                         value |-> DictGet(returned, CLI_CANONICAL_KEY_ORDER[i])]]
            IN  Ended(<<JsonDumps(ordered_output)>>, <<>>, 0)
       ELSE Ended(<<>>, <<Handled(error)>>, 1)
    /\ UNCHANGED <<content, tpos, tline, tcolumn, tokens, pos, result, seen_keys, key_token,
                   items, expecting_item, returned, error, key1, suggested, input, args, io, conc>>

\* validate behind its call: typer.Exit(0), or the except clause taken
ValidateEnd ==
    /\ pc = "done" /\ cli.command = "validate"
    /\ IF error = NoError
       THEN Ended(<<>>, <<>>, 0)
       ELSE Ended(<<>>, <<Handled(error)>>, 1)
    /\ UNCHANGED <<content, tpos, tline, tcolumn, tokens, pos, result, seen_keys, key_token,
                   items, expecting_item, returned, error, key1, suggested, input, args, io, conc>>

\* the FILE arguments: "-" for the standard input, and paths
Stdin == <<"-">>
Paths ==
    {<<"x", ".", "a", "f">>, <<"x", ".", "A", "F">>, <<"x", ".", "A", "f">>,
     <<"x", ".", "t", "x", "t">>, <<"x">>, <<".", "a", "f">>,
     <<"x", ".", "a", "f", ".", "t", "x", "t">>, <<"x", ".", "t", "x", "t", ".", "a", "f">>,
     <<"x", ".", "a", "f", ".">>, <<"d", ".", "a", "f", "/", "x">>,
     <<"d", "/", "x", ".", "a", "f">>, <<"x", ".", "a", "f", "x">>}

\* what FILE may name: nothing, a directory, a file that is not UTF-8, a text file
Named == {Io(FALSE, FALSE, TRUE), Io(TRUE, TRUE, TRUE), Io(TRUE, FALSE, FALSE), TextFile}

\* the texts read: well-formed ones, in another key order, with characters that
\* JSON escapes and with a BOM, and ones that fail in the tokenizer and parser
CliDocs ==
    {Replaced(purpose, Entry(purpose)),
     Concat([i \in 1..5 |-> Entry(CANONICAL_KEY_ORDER[6 - i])]),
     Replaced(purpose, purpose \o <<":", "\"", "q", "\\", "\"", "\\", "\\", "\\", "n", "\\", "t",
                                    "\n", "\r", "'", "\\", "a", "\"", "\n">>),
     Replaced(nice, nice \o <<":", "[", "'", "\\", "'", "\"", "'", ",", "\"", "\t", "\"", "]">>),
     <<BOM>> \o Replaced(purpose, Entry(purpose)),
     Inserted(0, EntryText(<<"d", "i", "s", "t">>, <<"\"", "x", "\"">>)),
     Inserted(2, EntryText(<<"p", "o", "u", "r", "p", "o", "s", "e">>, <<"\"", "x", "\"">>)),
     Inserted(5, Entry(purpose)),
     Entry(vision),
     <<>>,
     Entry(purpose) \o vision \o <<":", "'", "v">>,
     Entry(purpose) \o must \o <<":", "[", "]", "\n">>}

InitCli ==
    /\ \E file \in {Stdin} \cup Paths, named \in Named, doc \in CliDocs,
          bytes \in {0, MAX_INPUT_SIZE + 1} :
          /\ (file = Stdin \/ bytes > 0) => (named.exists /\ ~named.is_dir)
          /\ cli = Cli("None", file)
          /\ io = [named EXCEPT !.text = doc]
          /\ input = IF bytes = 0 THEN Given("shell", Len(doc), Utf8Len(doc))
                     ELSE Given("shell", bytes, bytes)
    /\ content = <<>>
    /\ tpos = 0 /\ tline = 1 /\ tcolumn = 1
    /\ tokens = <<>>
    /\ pos = 0 /\ result = <<>> /\ seen_keys = <<>>
    /\ key_token = NoToken /\ items = <<>> /\ expecting_item = FALSE
    /\ pc = "shell"
    /\ returned = <<>> /\ error = NoError
    /\ key1 = <<>> /\ suggested = <<>>
    /\ args = NoArgs /\ conc = NoConc

NextCli ==
    \/ \E c \in Commands : Call(c)
    \/ ParseAfFilePath
    \/ ParseAfFile
    \/ ParseAfStdin
    \/ Next
    \/ RunEnd
    \/ ValidateEnd

SpecCli == InitCli /\ [][NextCli]_vars

-----------------------------------------------------------------------------
(* load_input called on its own, with any arguments                          *)

\* load_input(source, stream): the text returned, or the exception
LoadInputCall ==
    /\ pc = "load" /\ input.entry = "load_input"
    /\ LET r == LoadInput(args, content, input, io)
       IN  /\ Accessed(r.accesses)
           /\ IF r.err # NoError THEN Raise(r.err) /\ UNCHANGED content
              ELSE content' = r.text /\ pc' = "done" /\ UNCHANGED error
    /\ UNCHANGED <<tpos, tline, tcolumn, tokens, pos, result, seen_keys, key_token,
                   items, expecting_item, returned, key1, suggested, input, args, cli, conc>>

\* the source arguments: None, the empty path and paths; the stream arguments:
\* None and a stream
Sources == {<<>>, <<<<>>>>} \cup {<<path>> : path \in Paths}
Streams == {<<>>, <<"stdin">>}

InitLoadInput ==
    /\ \E source \in Sources, stream \in Streams, named \in Named, doc \in CliDocs,
          bytes \in {0, MAX_INPUT_SIZE + 1} :
          /\ bytes > 0 => (named.exists /\ ~named.is_dir)
          /\ args = Args(source, stream)
          /\ io = named
          /\ content = doc
          /\ input = IF bytes = 0 THEN Given("load_input", Len(doc), Utf8Len(doc))
                     ELSE Given("load_input", bytes, bytes)
    /\ tpos = 0 /\ tline = 1 /\ tcolumn = 1
    /\ tokens = <<>>
    /\ pos = 0 /\ result = <<>> /\ seen_keys = <<>>
    /\ key_token = NoToken /\ items = <<>> /\ expecting_item = FALSE
    /\ pc = "load"
    /\ returned = <<>> /\ error = NoError
    /\ key1 = <<>> /\ suggested = <<>>
    /\ cli = NoCli /\ conc = NoConc

SpecLoadInput == InitLoadInput /\ [][LoadInputCall]_vars

-----------------------------------------------------------------------------
(* Two calls of validate_af_content in one process, their steps interleaved   *)

\* What a call owns: the content it was given, the attributes of its Tokenizer
\* and of its Parser, the place it is at and what it has returned or raised.
Frame ==
    [content |-> content, tpos |-> tpos, tline |-> tline, tcolumn |-> tcolumn,
     tokens |-> tokens, pos |-> pos, result |-> result, seen_keys |-> seen_keys,
     key_token |-> key_token, items |-> items, expecting_item |-> expecting_item,
     pc |-> pc, returned |-> returned, error |-> error, input |-> input]

\* the call validate_af_content(c) before its first step
NewFrame(c) ==
    [content |-> c, tpos |-> 0, tline |-> 1, tcolumn |-> 1,
     tokens |-> <<>>, pos |-> 0, result |-> <<>>, seen_keys |-> <<>>,
     key_token |-> NoToken, items |-> <<>>, expecting_item |-> FALSE,
     pc |-> "tokenize", returned |-> <<>>, error |-> NoError,
     input |-> Given("validate_af_content", Len(c), Len(c))]

\* a result map that belongs to the class: the call resumed finds what the
\* call that ran last left in it
SharedResult(own, last) == last

\* self.result is made by Parser.__init__, one for each Parser: the call
\* resumed finds its own
OwnResult(own, last) == own

\* the call f is the one that runs
Resume(f) ==
    /\ content' = f.content
    /\ tpos' = f.tpos /\ tline' = f.tline /\ tcolumn' = f.tcolumn
    /\ tokens' = f.tokens
    /\ pos' = f.pos /\ result' = OwnResult(f.result, result) /\ seen_keys' = f.seen_keys
    /\ key_token' = f.key_token /\ items' = f.items /\ expecting_item' = f.expecting_item
    /\ pc' = f.pc
    /\ returned' = f.returned /\ error' = f.error
    /\ input' = f.input

\* what a call ended in
Outcome(f) == [returned |-> f.returned, error |-> f.error]

\* Each input is first parsed with nothing else running, and what that ended in
\* is kept in conc.alone; then both calls are made.
AloneEnd ==
    /\ conc.phase = "alone" /\ pc = "done"
    /\ LET ended == Append(conc.alone, Outcome(Frame))
       IN  IF Len(ended) < 2
           THEN /\ Resume(NewFrame(conc.inputs[2]))
                /\ conc' = [conc EXCEPT !.alone = ended]
           ELSE /\ Resume(NewFrame(conc.inputs[1]))
                /\ conc' = [conc EXCEPT !.alone = ended, !.phase = "together",
                                        !.running = 1,
                                        !.waiting = NewFrame(conc.inputs[2])]
    /\ UNCHANGED <<key1, suggested, args, io, cli>>

\* the scheduler takes the running call off and puts the other one on, between
\* any two steps
Switch ==
    /\ conc.phase = "together"
    /\ Resume(conc.waiting)
    /\ conc' = [conc EXCEPT !.running = 3 - @, !.waiting = Frame]
    /\ UNCHANGED <<key1, suggested, args, io, cli>>

\* the inputs: two that parse, with different records, and one for each way a
\* parse ends early
ConcurrentDocs ==
    {Concat([i \in 1..5 |-> Entry(CANONICAL_KEY_ORDER[i])]),
     Replaced(nice, EntryText(nice, <<"[", "'", "z", "'", "]">>)),
     Entry(purpose),
     Entry(purpose) \o Entry(vision) \o Entry(purpose),
     EntryText(<<"p","o","u","r","p","o","s","e">>, <<"\"","x","\"">>),
     Entry(vision) \o EntryText(must, <<"[", "\"", "a", "\"">>),
     <<"p","u","r","p","o","s","e",":","\"","p">>}

InitConcurrent ==
    /\ \E c1 \in ConcurrentDocs : \E c2 \in ConcurrentDocs \ {c1} :
            /\ content = c1
            /\ input = Given("validate_af_content", Len(c1), Len(c1))
            /\ conc = [phase |-> "alone", inputs |-> <<c1, c2>>, alone |-> <<>>,
                       running |-> 1, waiting |-> <<>>]
    /\ tpos = 0 /\ tline = 1 /\ tcolumn = 1
    /\ tokens = <<>>
    /\ pos = 0 /\ result = <<>> /\ seen_keys = <<>>
    /\ key_token = NoToken /\ items = <<>> /\ expecting_item = FALSE
    /\ pc = "tokenize"
    /\ returned = <<>> /\ error = NoError
    /\ key1 = <<>> /\ suggested = <<>>
    /\ args = NoArgs /\ io = NoIo /\ cli = NoCli

NextConcurrent == Next \/ AloneEnd \/ Switch

SpecConcurrent == InitConcurrent /\ [][NextConcurrent]_vars

-----------------------------------------------------------------------------
(* validate_af_content on a document, and then on the record it returned      *)
(* written back as .af text                                                   *)

\* A string written between double quotes: a backslash, a double quote, a
\* newline and a tab as escapes, every other character as it is.
AfChar(c) ==
    CASE c = "\\" -> <<"\\", "\\">>
      [] c = "\"" -> <<"\\", "\"">>
      [] c = "\n" -> <<"\\", "n">>
      [] c = "\t" -> <<"\\", "t">>
      [] OTHER -> <<c>>
AfString(str) == <<"\"">> \o Concat([i \in 1..Len(str) |-> AfChar(str[i])]) \o <<"\"">>

\* a list written between brackets, its items separated by a comma and a blank
AfList(list) ==
    <<"[">>
    \o Concat([i \in 1..Len(list) |->
            (IF i = 1 THEN <<>> ELSE <<",", " ">>) \o AfString(list[i])])
    \o <<"]">>

\* a record written as .af text: an entry on a line for each key, in the
\* canonical order
AfText(rec) ==
    Concat([i \in 1..Len(CANONICAL_KEY_ORDER) |->
        LET k == CANONICAL_KEY_ORDER[i]
        IN  k \o <<":", " ">>
            \o (IF k \in STRING_KEYS THEN AfString(DictGet(rec, k))
                ELSE AfList(DictGet(rec, k)))
            \o <<"\n">>])

\* The value of purpose ends in conc.run tabs that are counted in input but not
\* spelled out in content, in the record or in the text written: each is one
\* byte between the quotes of the document and two bytes written as an escape.
\* Lines and columns are those of the characters spelled out.
Runs == {0, MAX_INPUT_SIZE \div 2 - 64, MAX_INPUT_SIZE \div 2}

\* validate_af_content called on the text written from the record returned
ParseAgain ==
    /\ conc.phase = "first" /\ pc = "done" /\ error = NoError
    /\ LET text == AfText(returned)
       IN  Resume([NewFrame(text) EXCEPT
                     !.pc = "load",
                     !.input = Given("validate_af_content", Len(text) + 2 * conc.run,
                                     Utf8Len(text) + 2 * conc.run)])
    /\ conc' = [conc EXCEPT !.phase = "again", !.first = returned]
    /\ UNCHANGED <<key1, suggested, args, io, cli>>

\* the characters of the values written
RewriteChars == {"a", "n", "\\", "\"", "'", "\n", "\t"}

\* the canonical document with one or two of those characters between the
\* quotes of purpose, and one whose lists hold items of them
RewriteDocs ==
    {Replaced(purpose, EntryText(purpose, <<q>> \o body \o <<q>>)) :
        q \in {"\"", "'"},
        body \in {<<x>> : x \in RewriteChars}
                 \cup {<<x, y>> : x \in RewriteChars, y \in RewriteChars}}
    \cup {Replaced(must, EntryText(must,
              <<"[", "'", "a", "\"", "\t", "'", ",", "\"", "\\", "\\", ",", "]", "\"",
                ",", "\n", "'", "[", "'", "]">>))}

InitRewrite ==
    /\ \E doc \in RewriteDocs, run \in Runs :
            /\ content = doc
            /\ input = Given("validate_af_content", Len(doc) + run, Utf8Len(doc) + run)
            /\ conc = [phase |-> "first", first |-> <<>>, run |-> run]
    /\ tpos = 0 /\ tline = 1 /\ tcolumn = 1
    /\ tokens = <<>>
    /\ pos = 0 /\ result = <<>> /\ seen_keys = <<>>
    /\ key_token = NoToken /\ items = <<>> /\ expecting_item = FALSE
    /\ pc = "load"
    /\ returned = <<>> /\ error = NoError
    /\ key1 = <<>> /\ suggested = <<>>
    /\ args = NoArgs /\ io = NoIo /\ cli = NoCli

NextRewrite == ValidateAfContent \/ Next \/ ParseAgain

SpecRewrite == InitRewrite /\ [][NextRewrite]_vars

-----------------------------------------------------------------------------
(* The same bytes read by parse_af_file from a file named x.af, and then by  *)
(* parse_af_stdin from the buffer of standard input                          *)

\* parse_af_stdin called on the bytes that parse_af_file was called on
ParseAfStdinCall ==
    /\ conc.phase = "file" /\ pc = "done"
    /\ Resume([NewFrame(conc.bytes) EXCEPT
                 !.pc = "load",
                 !.input = Given("parse_af_stdin", Len(conc.bytes), Utf8Len(conc.bytes))])
    /\ conc' = [conc EXCEPT !.phase = "stdin", !.file = Outcome(Frame)]
    /\ UNCHANGED <<key1, suggested, args, io, cli>>

\* documents in "\n", "\r\n" and "\r" lines, some with a line ending inside
\* a string, some refused by the parser, by the tokenizer or for a missing
\* key, each with and without a BOM in front
SameBytesDocs ==
    {Boms(n) \o body :
        n \in 0..1,
        body \in LoadBodies \cup LineEndingDocs \cup RefusedByParser \cup RefusedByTokenizer
                 \cup {Replaced(must, EntryText(must,
                            <<"[", "\"", "a", "\r", "\n", "\"", "\r", "'", "b", "'", "]">>))}}

InitSameBytes ==
    /\ \E doc \in SameBytesDocs :
            /\ content = doc
            /\ input = Given("parse_af_file", Len(doc), Utf8Len(doc))
            /\ conc = [phase |-> "file", bytes |-> doc, file |-> <<>>]
    /\ tpos = 0 /\ tline = 1 /\ tcolumn = 1
    /\ tokens = <<>>
    /\ pos = 0 /\ result = <<>> /\ seen_keys = <<>>
    /\ key_token = NoToken /\ items = <<>> /\ expecting_item = FALSE
    /\ pc = "load"
    /\ returned = <<>> /\ error = NoError
    /\ key1 = <<>> /\ suggested = <<>>
    /\ args = ArgsOf("parse_af_file") /\ io = TextFile /\ cli = NoCli

NextSameBytes == ParseAfFile \/ ParseAfStdinCall \/ ParseAfStdin \/ Next

SpecSameBytes == InitSameBytes /\ [][NextSameBytes]_vars

-----------------------------------------------------------------------------
(* Two runs of _find_closest_key on the same unknown key, each in a process *)
(* of its own                                                              *)

FuzzyAlphabet == {"d", "s", "t"}
FuzzyKeys ==
    ((SeqsUpTo(FuzzyAlphabet, MaxKeyLen) \ {<<>>}) \cup {<<"d","i","s","t">>}) \ REQUIRED_KEYS

InitFuzzy ==
    /\ key1 \in FuzzyKeys
    /\ suggested = [r \in 1..2 |-> [done |-> FALSE, key |-> <<>>]]
    /\ pc = "fuzzy"
    /\ content = <<>> /\ tpos = 0 /\ tline = 1 /\ tcolumn = 1 /\ tokens = <<>>
    /\ pos = 0 /\ result = <<>> /\ seen_keys = <<>>
    /\ key_token = NoToken /\ items = <<>> /\ expecting_item = FALSE
    /\ returned = <<>> /\ error = NoError
    /\ input = Given("validate_af_content", 0, 0)
    /\ args = NoArgs /\ io = NoIo /\ cli = NoCli /\ conc = NoConc

\* run r calls _find_closest_key(key, REQUIRED_KEYS); its process visits the set
\* in some order
FindClosest(r) ==
    /\ pc = "fuzzy" /\ ~suggested[r].done
    /\ \E order \in RequiredKeyOrders :
         suggested' = [suggested EXCEPT ![r] = [done |-> TRUE,
                                               key |-> FindClosestKey(key1, order)]]
    /\ UNCHANGED <<content, tpos, tline, tcolumn, tokens, pos, result, seen_keys, key_token,
                   items, expecting_item, pc, returned, error, key1, input, args, io, cli, conc>>

NextFuzzy == \E r \in 1..2 : FindClosest(r)

SpecFuzzy == InitFuzzy /\ [][NextFuzzy]_vars

-----------------------------------------------------------------------------
(* _find_closest_key called on a word, and _levenshtein_distance called on   *)
(* that word and another one, both ways round                                *)

MaxWord == 3

\* short words in two letters and a capital, and spellings of recognized keys
\* with letters swapped, changed or in capitals
Words ==
    SeqsUpTo({"a", "b", "A"}, MaxWord)
    \cup {<<"M","U","T","S">>, <<"D","i","s","t">>, <<"N","i","c","e">>, <<"d","n","o","t">>,
          must, dont}

InitDistance ==
    /\ key1 \in Words
    /\ suggested = [s2 |-> <<>>, distance |-> -1, back |-> -1, key |-> <<>>]
    /\ pc = "closest"
    /\ content = <<>> /\ tpos = 0 /\ tline = 1 /\ tcolumn = 1 /\ tokens = <<>>
    /\ pos = 0 /\ result = <<>> /\ seen_keys = <<>>
    /\ key_token = NoToken /\ items = <<>> /\ expecting_item = FALSE
    /\ returned = <<>> /\ error = NoError
    /\ input = Given("validate_af_content", 0, 0)
    /\ args = NoArgs /\ io = NoIo /\ cli = NoCli /\ conc = NoConc

\* _find_closest_key(s1, REQUIRED_KEYS), the set visited in some order
FindClosestCall ==
    /\ pc = "closest"
    /\ \E order \in RequiredKeyOrders :
         suggested' = [suggested EXCEPT !.key = FindClosestKey(key1, order)]
    /\ pc' = "distance"
    /\ UNCHANGED <<content, tpos, tline, tcolumn, tokens, pos, result, seen_keys, key_token,
                   items, expecting_item, returned, error, key1, input, args, io, cli, conc>>

\* _levenshtein_distance(s1, s2) and _levenshtein_distance(s2, s1)
LevenshteinCall ==
    /\ pc = "distance"
    /\ \E s2 \in Words :
         suggested' = [suggested EXCEPT
                         !.s2 = s2,
                         !.distance = LevenshteinDistance(key1, s2),
                         !.back = LevenshteinDistance(s2, key1)]
    /\ pc' = "done"
    /\ UNCHANGED <<content, tpos, tline, tcolumn, tokens, pos, result, seen_keys, key_token,
                   items, expecting_item, returned, error, key1, input, args, io, cli, conc>>

NextDistance == FindClosestCall \/ LevenshteinCall

SpecDistance == InitDistance /\ [][NextDistance]_vars

-----------------------------------------------------------------------------
(* What the claims speak of *)

Succeeded == pc = "done" /\ error = NoError

Insignificant == {"NEWLINE", "COMMENT"}

\* the token the parser stands at, and the first one behind the newlines and
\* comments it stands at
ThisToken == PeekToken(tokens, pos)
NextSig == PeekToken(tokens, SkipNewlinesAndComments(tokens, pos))

\* the last token before the parser's position that is no newline or comment
PrevSig ==
    tokens[CHOOSE i \in 1..pos :
              /\ tokens[i].type \notin Insignificant
              /\ \A j \in (i + 1)..pos : tokens[j].type \in Insignificant]

\* the key whose value is being parsed
CurrentKey == Lower(key_token.value)

-----------------------------------------------------------------------------
\* C1: whenever the parse succeeds, the returned record has exactly the five
\* keys purpose, vision, must, dont, nice, iterated in that order, whatever the
\* order of the key lines in the input.
C1_CanonicalKeyOrder ==
    Succeeded =>
        [i \in 1..Len(returned) |-> returned[i].key] = <<purpose, vision, must, dont, nice>>

\* a successful parse of a document whose key lines ran from nice to purpose
C1_Witness ==
    Succeeded /\ Len(result) = 5 /\ result[1].key = nice /\ result[5].key = purpose

-----------------------------------------------------------------------------
\* C2: when the tokens are consumed without any other error and the accepted
\* keys are a proper subset of the five required keys, the parse fails with a
\* missing-keys error naming exactly the required keys not accepted, all of
\* them, in sorted order, and nothing is returned; with all five accepted no
\* error is raised.
AlphabeticalKeys == <<dont, must, nice, purpose, vision>>

C2_MissingKeysNamed ==
    (pc = "done" /\ error.type \in {"None", "AFMissingKeyError"}) =>
        IF DictKeys(result) = {purpose, vision, must, dont, nice}
        THEN error = NoError
        ELSE /\ error.type = "AFMissingKeyError"
             /\ error.keys = SelectSeq(AlphabeticalKeys, LAMBDA k : k \notin DictKeys(result))
             /\ returned = <<>>

\* a missing-keys error naming must and vision with the other three accepted
C2_Witness ==
    /\ pc = "done" /\ error.type = "AFMissingKeyError"
    /\ error.keys = <<must, vision>> /\ Len(result) = 3

-----------------------------------------------------------------------------
\* C3: in every returned record purpose and vision are non-empty strings and
\* must, dont, nice are non-empty lists of non-empty strings; and an empty
\* quoted string ("" or '') anywhere in the input makes the parse fail with an
\* empty-value error at the line and column where that string starts, a line
\* ending at each "\n", "\r\n" and lone "\r".
EmptyQuotedAt(i) ==
    /\ content[i] \in {"\"", "'"}
    /\ content[i + 1] = content[i]
    /\ (i = 1 \/ content[i - 1] # "\\")

\* a line terminator ends at the 1-based index i of the input
TerminatorEndsAt(i) ==
    \/ content[i] = "\n"
    \/ content[i] = "\r" /\ (i = Len(content) \/ content[i + 1] # "\n")

LastTerminator(p) ==
    IF \E i \in 1..p : TerminatorEndsAt(i)
    THEN CHOOSE i \in 1..p : TerminatorEndsAt(i) /\ \A j \in (i + 1)..p : ~TerminatorEndsAt(j)
    ELSE 0
StartLine(i) == 1 + Cardinality({j \in 1..(i - 1) : TerminatorEndsAt(j)})
StartColumn(i) == i - LastTerminator(i - 1)

C3_NonEmptyValues ==
    Succeeded =>
        /\ \A i \in 1..2 : returned[i].value # <<>>
        /\ \A i \in 3..5 :
              /\ returned[i].value # <<>>
              /\ \A j \in 1..Len(returned[i].value) : returned[i].value[j] # <<>>

C3_EmptyQuotedAnywhere ==
    /\ C3_NonEmptyValues
    /\ (pc = "done" /\ \E i \in 1..(Len(content) - 1) : EmptyQuotedAt(i)) =>
          /\ error.type = "AFEmptyValueError"
          /\ error.message = "String value cannot be empty"
          /\ \E i \in 1..(Len(content) - 1) :
                /\ EmptyQuotedAt(i)
                /\ error.line = StartLine(i) /\ error.column = StartColumn(i)

-----------------------------------------------------------------------------
\* C4: when a recognized key, compared case-insensitively, appears again after
\* an occurrence of it was accepted, the parse fails with a duplicate-key error
\* naming the key and the line of the first occurrence, and the value stored
\* for the first occurrence stays.
FirstKeyIndex(key) ==
    CHOOSE i \in 1..Len(tokens) :
        /\ tokens[i].type = "KEY" /\ Lower(tokens[i].value) = key
        /\ \A j \in 1..(i - 1) : ~(tokens[j].type = "KEY" /\ Lower(tokens[j].value) = key)

RepeatedKeyAhead ==
    pc = "line" /\ ThisToken.type = "KEY" /\ Lower(ThisToken.value) \in DictKeys(result)

-----------------------------------------------------------------------------
\* C5: a key that, lowercased, is none of the five recognized names always
\* fails the parse with an unknown-key error and is never accepted; the error
\* carries a suggestion if and only if the least Levenshtein distance to the
\* five names is at most 2, and the suggested name is at that least distance.
MinKeyDistance(key) ==
    CHOOSE d \in 0..(Len(key) + 7) :
        /\ \E k \in {purpose, vision, must, dont, nice} : LevenshteinDistance(key, k) = d
        /\ \A k \in {purpose, vision, must, dont, nice} : LevenshteinDistance(key, k) >= d

UnknownKeyAhead ==
    /\ pc = "line" /\ ThisToken.type = "KEY"
    /\ Lower(ThisToken.value) \notin {purpose, vision, must, dont, nice}

C5_UnknownKeySuggestion ==
    [][UnknownKeyAhead =>
        /\ pc' = "done"
        /\ error'.type = "AFUnknownKeyError"
        /\ error'.keys = <<Lower(ThisToken.value)>>
        /\ result' = result /\ returned' = <<>>
        /\ (error'.suggestion # <<>>) <=> (MinKeyDistance(Lower(ThisToken.value)) <= 2)
        /\ error'.suggestion # <<>> =>
              /\ error'.suggestion \in {purpose, vision, must, dont, nice}
              /\ LevenshteinDistance(Lower(ThisToken.value), error'.suggestion)
                   = MinKeyDistance(Lower(ThisToken.value))]_vars

\* an unknown-key error for pourpose that suggests purpose
C5_Witness ==
    /\ pc = "done" /\ error.type = "AFUnknownKeyError"
    /\ error.keys = <<<<"p","o","u","r","p","o","s","e">>>>
    /\ error.suggestion = purpose

-----------------------------------------------------------------------------
\* C6: for a given unknown key every run suggests the same name, also when two
\* recognized keys are at the same least distance: two runs on the same key
\* never differ.
C6_SameSuggestionEveryRun ==
    (pc = "fuzzy" /\ suggested[1].done /\ suggested[2].done) =>
        suggested[1].key = suggested[2].key

-----------------------------------------------------------------------------
\* C7: list items separated only by newlines are accepted: an item followed by
\* one or more newlines (and comments) and then another item is appended to
\* the list, and the parse goes on without an error.
ItemNewlineItemAhead ==
    /\ pc = "list_item" /\ NextSig.type = "STRING"
    /\ PeekToken(tokens, SkipNewlinesAndComments(tokens, pos) + 1).type = "NEWLINE"
    /\ PeekToken(tokens, SkipNewlinesAndComments(tokens,
                             SkipNewlinesAndComments(tokens, pos) + 1)).type = "STRING"

C7_NewlineSeparatedItems ==
    [][ItemNewlineItemAhead =>
        (error' = NoError /\ items' = Append(items, NextSig.value))]_vars

-----------------------------------------------------------------------------
\* C8: behind the colon of a recognized key a run of newlines and comments is
\* skipped before the value is read: a string or a '[' that begins behind such
\* a run is taken with the same result as if it stood right behind the colon.
ValueBehindGapAhead ==
    /\ pc = "value" /\ ThisToken.type \in Insignificant
    /\ IF CurrentKey \in {purpose, vision}
       THEN ParseStringValue(tokens, SkipNewlinesAndComments(tokens, pos)).err = NoError
       ELSE ParseListOpen(tokens, SkipNewlinesAndComments(tokens, pos)).err = NoError

C8_ValueOnLaterLine ==
    [][ValueBehindGapAhead =>
        /\ error' = NoError
        /\ IF CurrentKey \in {purpose, vision}
           THEN result' = DictSet(result, CurrentKey,
                    ParseStringValue(tokens, SkipNewlinesAndComments(tokens, pos)).value)
           ELSE pos' = ParseListOpen(tokens, SkipNewlinesAndComments(tokens, pos)).pos]_vars

-----------------------------------------------------------------------------
\* C9: in a list a trailing comma before ']' (newlines and comments may stand
\* between them) is accepted and adds no item, the list being stored with the
\* items read; a comma where an item is expected (behind '[' or behind another
\* comma) always fails with a syntax error.
TrailingCommaAhead ==
    /\ pc = "list_item" /\ items # <<>>
    /\ PrevSig.type = "COMMA" /\ NextSig.type = "RBRACKET"

CommaForItemAhead ==
    /\ pc = "list_item"
    /\ PrevSig.type \in {"LBRACKET", "COMMA"} /\ NextSig.type = "COMMA"

ClosingAhead ==
    /\ pc = "list_close" /\ items # <<>> /\ ThisToken.type = "RBRACKET"
    /\ PeekToken(tokens, pos + 1).type \in {"NEWLINE", "COMMENT", "EOF"}

C9_TrailingAndEmptyCommas ==
    [][/\ TrailingCommaAhead => (error' = NoError /\ items' = items /\ pc' = "list_close")
       /\ ClosingAhead => (error' = NoError /\ CurrentKey \in DictKeys(result')
                           /\ DictGet(result', CurrentKey) = items)
       /\ CommaForItemAhead => (pc' = "done" /\ error'.type = "AFSyntaxError"
                                /\ error'.message = "Empty item in list"
                                /\ result' = result)]_vars

\* a successful parse of a document with a comma right before a ']'
C9_Witness ==
    /\ Succeeded
    /\ \E i \in 1..(Len(tokens) - 2) :
          /\ tokens[i].type = "COMMA"
          /\ tokens[i + 1].type = "NEWLINE" /\ tokens[i + 2].type = "RBRACKET"

-----------------------------------------------------------------------------
\* C10: a list-valued key whose list closes with ']' while holding no item
\* fails with an empty-value error, and the key is not recorded.
EmptyListAhead ==
    /\ pc = "list_item" /\ PrevSig.type = "LBRACKET" /\ NextSig.type = "RBRACKET"

C10_EmptyListRejected ==
    [][/\ EmptyListAhead => (pc' = "list_close" /\ items' = <<>> /\ error' = NoError
                             /\ PeekToken(tokens, pos').type = "RBRACKET")
       /\ (pc = "list_close" /\ items = <<>>) =>
              /\ pc' = "done"
              /\ error'.type = "AFEmptyValueError"
              /\ error'.message = "List cannot be empty"
              /\ CurrentKey \in {must, dont, nice}
              /\ CurrentKey \notin DictKeys(result')
              /\ result' = result /\ returned' = <<>>]_vars

\* an empty-value error raised at the ']' of a list with nothing but a comment
\* and a newline in it
C10_Witness ==
    /\ pc = "done" /\ error.message = "List cannot be empty"
    /\ tokens[pos].type = "RBRACKET" /\ tokens[pos - 1].type = "NEWLINE"
    /\ tokens[pos - 2].type = "COMMENT"

-----------------------------------------------------------------------------
\* C11: every diagnostic raised with a line and a column, on a line of the
\* input that has text, renders that source line followed by a caret line of
\* (column - 1) spaces and '^', as the unknown-key diagnostic does.
SourceLineAvailable ==
    /\ error.line \in 1..Len(SplitLines(content))
    /\ SplitLines(content)[error.line] # <<>>

C11_EveryDiagnosticHasCaret ==
    (pc = "done" /\ error # NoError /\ error.line # 0 /\ error.column # 0
        /\ SourceLineAvailable) =>
        Caret(error) = <<SplitLines(content)[error.line],
                         [i \in 1..(error.column - 1) |-> " "] \o <<"^">>>>

-----------------------------------------------------------------------------
\* C12: a missing-keys diagnostic, raised at the last line of an input whose
\* line has text, includes a caret line in its rendered message.
C12_MissingKeysHasCaret ==
    (pc = "done" /\ error.type = "AFMissingKeyError" /\ SourceLineAvailable) =>
        (Caret(error) # <<>> /\ Caret(error)[1] = SplitLines(content)[error.line])

-----------------------------------------------------------------------------
\* C13: on every entry point the size ceiling is on the count of UTF-8 bytes
\* of the input as given, a leading BOM included: an input of more than
\* 1,048,576 bytes is rejected with a size error and nothing of it is
\* tokenized, and an input of 1,048,576 bytes or less goes to the tokenizer and
\* never fails with a size error.
C13_SizeCeiling ==
    /\ [](tokens # <<>> => input.bytes <= MAX_INPUT_SIZE)
    /\ []((pc = "done" /\ input.bytes <= MAX_INPUT_SIZE) => error.type # "AFSizeError")
    /\ [][pc = "load" =>
            IF input.bytes > MAX_INPUT_SIZE
            THEN pc' = "done" /\ error'.type = "AFSizeError"
                 /\ tokens' = <<>> /\ returned' = <<>>
            ELSE pc' = "tokenize" /\ error' = NoError]_vars

\* a successful parse of an input of exactly 1,048,576 bytes in fewer
\* characters, read from a text stream
C13_Witness ==
    /\ Succeeded /\ input.bytes = MAX_INPUT_SIZE /\ input.chars < input.bytes
    /\ input.entry = "parse_af_stdin_text"

-----------------------------------------------------------------------------
\* C14: on every entry point exactly one leading BOM character is stripped
\* before tokenizing: the text handed to the tokenizer starts with one BOM
\* less than the text given, and with none if the text given had none.
RECURSIVE LeadingBoms(_)
LeadingBoms(c) == IF c # <<>> /\ Head(c) = BOM THEN 1 + LeadingBoms(Tail(c)) ELSE 0

C14_ExactlyOneBomStripped ==
    [][(pc = "load" /\ pc' = "tokenize") =>
          /\ LeadingBoms(content') = (IF LeadingBoms(content) = 0 THEN 0
                                      ELSE LeadingBoms(content) - 1)
          /\ Len(TranslateNewlines(content')) =
                Len(TranslateNewlines(content)) - (IF LeadingBoms(content) = 0 THEN 0 ELSE 1)]_vars

-----------------------------------------------------------------------------
\* C15: every token the tokenizer emits, the end-of-input token included, has
\* as its line 1 plus the number of line terminators before it, where "\n",
\* "\r\n" and a lone "\r" each count as one, and as its column 1 plus the
\* number of characters since the last terminator.
TokenStart ==
    IF tpos >= Len(content) THEN Len(content) + 1
    ELSE SkipWhitespace(content, [pos |-> tpos, line |-> tline, column |-> tcolumn]).pos + 1

C15_TokenLineAndColumn ==
    [][(pc = "tokenize" /\ Len(tokens') = Len(tokens) + 1) =>
          /\ tokens'[Len(tokens')].line = StartLine(TokenStart)
          /\ tokens'[Len(tokens')].column = StartColumn(TokenStart)]_vars

-----------------------------------------------------------------------------
\* C16: whenever the end of the input is reached after an opening quote and
\* before its matching closing quote, for any content, content that ends in a
\* backslash included, the tokenizer fails with an unterminated-string syntax
\* error at the line and column of the opening quote.

\* From the 1-based index j inside a string opened by the quote q, the input
\* ends before an unescaped q; a backslash takes a following q or backslash
\* with it.
RECURSIVE RunsToEnd(_, _, _)
RunsToEnd(c, j, q) ==
    IF j > Len(c) THEN TRUE
    ELSE IF c[j] = "\\"
    THEN IF j = Len(c) THEN TRUE
         ELSE IF c[j + 1] \in {q, "\\"} THEN RunsToEnd(c, j + 2, q)
         ELSE RunsToEnd(c, j + 1, q)
    ELSE IF c[j] = q THEN FALSE
    ELSE RunsToEnd(c, j + 1, q)

UnterminatedStringAhead ==
    /\ pc = "tokenize" /\ TokenStart <= Len(content)
    /\ content[TokenStart] \in {"\"", "'"}
    /\ RunsToEnd(content, TokenStart + 1, content[TokenStart])

C16_UnterminatedString ==
    [][UnterminatedStringAhead =>
          /\ pc' = "done"
          /\ error'.type = "AFSyntaxError"
          /\ error'.message = "Unterminated string"
          /\ error'.line = StartLine(TokenStart)
          /\ error'.column = StartColumn(TokenStart)]_vars

-----------------------------------------------------------------------------
\* C17: the value of a String token is its content between the quotes decoded
\* so: a backslash and the string's own quote give that quote, two backslashes
\* give one, backslash n a newline, backslash t a tab, a backslash and any
\* other character x give the backslash and x, and every other character is
\* copied as it is.

\* the decoding of the content from the 1-based index j up to the closing q
RECURSIVE Decoded(_, _, _)
Decoded(c, j, q) ==
    IF c[j] = q THEN <<>>
    ELSE IF c[j] = "\\"
    THEN (CASE c[j + 1] = q -> <<q>>
            [] c[j + 1] = "\\" -> <<"\\">>
            [] c[j + 1] = "n" -> <<"\n">>
            [] c[j + 1] = "t" -> <<"\t">>
            [] OTHER -> <<"\\", c[j + 1]>>) \o Decoded(c, j + 2, q)
    ELSE <<c[j]>> \o Decoded(c, j + 1, q)

TerminatedStringAhead ==
    /\ pc = "tokenize" /\ TokenStart <= Len(content)
    /\ content[TokenStart] \in {"\"", "'"}
    /\ ~RunsToEnd(content, TokenStart + 1, content[TokenStart])

C17_EscapesDecoded ==
    [][TerminatedStringAhead =>
          LET value == Decoded(content, TokenStart + 1, content[TokenStart])
          IN  IF value = <<>>
              THEN pc' = "done" /\ error'.type = "AFEmptyValueError"
              ELSE /\ error' = NoError
                   /\ tokens' = Append(tokens, Token("STRING", value, tline,
                            SkipWhitespace(content, [pos |-> tpos, line |-> tline,
                                                     column |-> tcolumn]).column))]_vars

\* a double-quoted string of a backslash, a single quote and an a was scanned
\* to the token of those three characters, and the parse went on
C17_Witness ==
    /\ pc = "done" /\ error.type = "AFMissingKeyError"
    /\ \E i \in 1..Len(tokens) :
          tokens[i].type = "STRING" /\ tokens[i].value = <<"\\", "'", "a">>

-----------------------------------------------------------------------------
\* C18: a line terminator written inside a quoted string does not end the
\* string but is kept in the value of its String token, and every token
\* emitted after a string that holds a line terminator has the line number
\* that counts the lines the string spanned.
HoldsTerminator(value) == \E k \in 1..Len(value) : value[k] \in {"\n", "\r"}

AfterMultiLineString ==
    /\ pc = "tokenize"
    /\ \E i \in 1..Len(tokens) : tokens[i].type = "STRING" /\ HoldsTerminator(tokens[i].value)

\* the 1-based index of the unescaped q that closes the string, from j
RECURSIVE ClosingQuote(_, _, _)
ClosingQuote(c, j, q) ==
    IF c[j] = q THEN j
    ELSE IF c[j] = "\\" /\ c[j + 1] \in {q, "\\"} THEN ClosingQuote(c, j + 2, q)
    ELSE ClosingQuote(c, j + 1, q)

C18_MultiLineStrings ==
    [][/\ (TerminatedStringAhead /\ error' = NoError) =>
            /\ tokens'[Len(tokens')].type = "STRING"
            /\ tokens'[Len(tokens')].value
                 = Decoded(content, TokenStart + 1, content[TokenStart])
            /\ tpos' = ClosingQuote(content, TokenStart + 1, content[TokenStart])
       /\ (AfterMultiLineString /\ Len(tokens') = Len(tokens) + 1) =>
            tokens'[Len(tokens')].line = StartLine(TokenStart)]_vars

-----------------------------------------------------------------------------
\* C19: after the string value of purpose or vision and after the ']' of a
\* list the next token must be a Newline, a Comment or the end of input; any
\* other token fails with a trailing-characters syntax error at that token and
\* the key is not recorded; so a key is only ever accepted at the start of the
\* input or right behind a Newline token.
Follower == PeekToken(tokens, pos + 1)

MayFollow == {"None", "NEWLINE", "COMMENT", "EOF"}

StrayAfterStringAhead ==
    /\ pc = "value" /\ CurrentKey \in {purpose, vision}
    /\ ThisToken.type = "STRING" /\ Follower.type \notin MayFollow

StrayAfterListAhead ==
    /\ pc = "list_close" /\ items # <<>>
    /\ ThisToken.type = "RBRACKET" /\ Follower.type \notin MayFollow

C19_NoTrailingTokens ==
    [][/\ StrayAfterStringAhead =>
            /\ pc' = "done" /\ error'.type = "AFSyntaxError"
            /\ error'.message = "Unexpected characters after string value"
            /\ error'.line = Follower.line /\ error'.column = Follower.column
            /\ result' = result /\ CurrentKey \notin DictKeys(result')
       /\ StrayAfterListAhead =>
            /\ pc' = "done" /\ error'.type = "AFSyntaxError"
            /\ error'.message = "Unexpected characters after list"
            /\ error'.line = Follower.line /\ error'.column = Follower.column
            /\ result' = result /\ CurrentKey \notin DictKeys(result')
       /\ (pc = "line" /\ pc' = "value" /\ pos > 0) => tokens[pos].type = "NEWLINE"]_vars

\* the parse failed at the key nice written behind the list of dont on its line
C19_Witness ==
    /\ pc = "done" /\ error.message = "Unexpected characters after list"
    /\ PeekToken(tokens, pos).type = "KEY" /\ PeekToken(tokens, pos).value = nice
    /\ PeekToken(tokens, pos).line = key_token.line
    /\ dont \notin DictKeys(result)

-----------------------------------------------------------------------------
\* C20: key names are matched without regard to case: a key written in any
\* casing of a recognized name that was not accepted before, with its colon,
\* is accepted, and the value parsed for it is recorded under the lowercase
\* name, so the record's keys are always the lowercase names.

\* the word w is the name k in some casing
IsCasingOf(w, k) ==
    /\ Len(w) = Len(k)
    /\ \A i \in 1..Len(w) :
          \/ w[i] = k[i]
          \/ \E n \in 1..26 : AlphabetUpper[n] = w[i] /\ AlphabetLower[n] = k[i]

Names == {purpose, vision, must, dont, nice}

C20_KeysCaseInsensitive ==
    [][/\ \A k \in Names :
             (/\ pc = "line" /\ ThisToken.type = "KEY" /\ IsCasingOf(ThisToken.value, k)
              /\ k \notin DictKeys(result) /\ Follower.type = "COLON") =>
                (pc' = "value" /\ error' = NoError /\ key_token' = ThisToken)
       /\ \A k \in Names :
             (/\ pc \in {"value", "list_close"} /\ pc' = "parse"
              /\ IsCasingOf(key_token.value, k)) =>
                /\ DictKeys(result') = DictKeys(result) \cup {k}
                /\ k \notin DictKeys(result)
                /\ DictGet(result', k)
                     = (IF pc = "value" THEN ThisToken.value ELSE items)
       /\ DictKeys(result') \subseteq Names]_vars

\* a successful parse of a document with a key written in mixed case
C20_Witness ==
    /\ Succeeded
    /\ \E i \in 1..Len(tokens) :
          /\ tokens[i].type = "KEY"
          /\ \E j, l \in 1..Len(tokens[i].value) :
                /\ tokens[i].value[j] \in UpperLetters
                /\ tokens[i].value[l] \in LowerLetters

-----------------------------------------------------------------------------
\* C21: every run ends in exactly one of two outcomes, a record holding the
\* five keys or one diagnostic and no record; the first diagnostic raised ends
\* the run, so that nothing is reported after it, and a record of fewer than
\* five keys is never returned.
C21_OneOutcome ==
    /\ [](pc # "done" => (error = NoError /\ returned = <<>>))
    /\ [](pc = "done" =>
            \/ error = NoError /\ Len(returned) = 5 /\ DictKeys(returned) = Names
            \/ error # NoError /\ returned = <<>>)
    /\ [][/\ error' # error => (error = NoError /\ pc' = "done")
          /\ returned' # returned => (returned = <<>> /\ pc' = "done")
          /\ pc # "done"]_vars

\* the run ended at the first of two commas that stand where an item is
\* expected, and the second was not looked at
C21_Witness ==
    /\ pc = "done" /\ error.message = "Empty item in list"
    /\ PeekToken(tokens, pos).type = "COMMA" /\ PeekToken(tokens, pos + 1).type = "COMMA"
    /\ returned = <<>>

-----------------------------------------------------------------------------
\* C22: the run command, for any FILE (a path or "-"): when the parse succeeds,
\* stdout holds the JSON record only, its keys in the canonical order and its
\* values those parsed, stderr is empty and the exit code is 0; when the parse
\* fails in any way (file not found, size, extension, encoding, a diagnostic
\* of the tokenizer or parser, an unexpected exception), stdout is empty,
\* stderr holds exactly one message and the exit code is not 0.

\* A line of a JSON text read: the strings in it, in order, with their escapes
\* undone, and the characters outside of strings other than blanks; st is
\* [i, inside, cur, strings, others]
RECURSIVE JsonScan(_, _)
JsonScan(t, st) ==
    IF st.i > Len(t) THEN st
    ELSE IF ~st.inside
    THEN IF t[st.i] = "\""
         THEN JsonScan(t, [st EXCEPT !.i = st.i + 1, !.inside = TRUE, !.cur = <<>>])
         ELSE IF t[st.i] \in {" ", "\n"}
         THEN JsonScan(t, [st EXCEPT !.i = st.i + 1])
         ELSE JsonScan(t, [st EXCEPT !.i = st.i + 1, !.others = Append(st.others, t[st.i])])
    ELSE IF t[st.i] = "\""
    THEN JsonScan(t, [st EXCEPT !.i = st.i + 1, !.inside = FALSE,
                                !.strings = Append(st.strings, st.cur)])
    ELSE IF t[st.i] = "\\"
    THEN JsonScan(t, [st EXCEPT !.i = st.i + 2,
                        !.cur = Append(st.cur,
                                       CASE t[st.i + 1] = "n" -> "\n"
                                         [] t[st.i + 1] = "r" -> "\r"
                                         [] t[st.i + 1] = "t" -> "\t"
                                         [] OTHER -> t[st.i + 1])])
    ELSE JsonScan(t, [st EXCEPT !.i = st.i + 1, !.cur = Append(st.cur, t[st.i])])

\* the lines of a JSON text: a newline inside a string is written as an escape,
\* so every newline of the text ends a line
JsonLines(t) ==
    LET at == {i \in 1..Len(t) : t[i] = "\n"}
        ends == [k \in 1..Cardinality(at) |->
                    CHOOSE i \in at : Cardinality({j \in at : j < i}) = k - 1]
        cuts == <<0>> \o ends \o <<Len(t) + 1>>
    IN  [k \in 1..Len(cuts) - 1 |-> SubSeq(t, cuts[k] + 1, cuts[k + 1] - 1)]

JsonRead(t) ==
    LET reads == [k \in 1..Len(JsonLines(t)) |->
                    JsonScan(JsonLines(t)[k], [i |-> 1, inside |-> FALSE, cur |-> <<>>,
                                               strings |-> <<>>, others |-> <<>>])]
    IN  [inside |-> \E k \in 1..Len(reads) : reads[k].inside,
         strings |-> Concat([k \in 1..Len(reads) |-> reads[k].strings]),
         others |-> Concat([k \in 1..Len(reads) |-> reads[k].others])]

\* the strings and the punctuation of the JSON object of the record rec, its
\* keys in the canonical order
RecordStrings(rec) ==
    <<purpose, DictGet(rec, purpose), vision, DictGet(rec, vision)>>
    \o <<must>> \o DictGet(rec, must)
    \o <<dont>> \o DictGet(rec, dont)
    \o <<nice>> \o DictGet(rec, nice)

Commas(n) == [i \in 1..n |-> ","]
ListPunctuation(list) == <<":", "[">> \o Commas(Len(list) - 1) \o <<"]">>
RecordPunctuation(rec) ==
    <<"{", ":", ",", ":", ",">> \o ListPunctuation(DictGet(rec, must)) \o <<",">>
    \o ListPunctuation(DictGet(rec, dont)) \o <<",">>
    \o ListPunctuation(DictGet(rec, nice)) \o <<"}">>

IsJsonOf(t, rec) ==
    /\ ~JsonRead(t).inside
    /\ JsonRead(t).strings = RecordStrings(rec)
    /\ JsonRead(t).others = RecordPunctuation(rec)

RunEnded == pc = "shell" /\ cli.command = "run" /\ cli.exit_code # -1

C22_RunStreams ==
    RunEnded =>
        IF error = NoError
        THEN /\ cli.exit_code = 0 /\ cli.stderr = <<>>
             /\ Len(cli.stdout) = 1 /\ IsJsonOf(cli.stdout[1], returned)
        ELSE /\ cli.exit_code # 0 /\ cli.stdout = <<>>
             /\ Len(cli.stderr) = 1

\* run ended well on the standard input, with a record whose purpose holds a
\* double quote, a backslash, a newline and a tab
C22_Witness ==
    /\ RunEnded /\ error = NoError /\ cli.file = Stdin
    /\ {"\"", "\\", "\n", "\t"} \subseteq
          {DictGet(returned, purpose)[i] : i \in 1..Len(DictGet(returned, purpose))}

-----------------------------------------------------------------------------
\* C23: validate parses as run does: for every FILE and input, validate exits
\* with 0 exactly when run does, on failure it writes to stderr the message
\* run writes, and it writes nothing to stdout.
BothEnded == pc = "shell" /\ cli.before # <<>> /\ cli.exit_code # -1

\* the command c as it ended
EndedAs(c) == IF cli.command = c THEN cli ELSE cli.before[1]

C23_ValidateAsRun ==
    BothEnded =>
        /\ (EndedAs("validate").exit_code = 0) <=> (EndedAs("run").exit_code = 0)
        /\ EndedAs("validate").stderr = EndedAs("run").stderr
        /\ EndedAs("validate").stdout = <<>>

-----------------------------------------------------------------------------
\* C24: parse_af_file goes on to read an existing path only if the extension
\* of its name is .af in any casing; for an existing path with another
\* extension or none it fails with the extension diagnostic although neither
\* the size nor the content of the file was read, whatever the file holds.

\* the name of the path ends in ".af" in some casing, behind at least one
\* other character
EndsInDotAf(path) ==
    LET name == PathName(path) IN
    /\ Len(name) > 3
    /\ name[Len(name) - 2] = "."
    /\ name[Len(name) - 1] \in {"a", "A"}
    /\ name[Len(name)] \in {"f", "F"}

ExistingPathAhead == pc = "path" /\ io.exists

C24_ExtensionBeforeContent ==
    [][/\ ExistingPathAhead =>
            IF EndsInDotAf(args.source[1])
            THEN pc' = "load" /\ error' = NoError
            ELSE /\ pc' = "done"
                 /\ error' = Err("AFParseError", "File must have .af extension", 1, 0)
                 /\ io'.accesses = <<"exists">>
                 /\ content' = content /\ tokens' = <<>> /\ returned' = <<>>
       /\ (pc = "load" /\ input.entry = "parse_af_file") =>
            /\ EndsInDotAf(args.source[1])
            /\ io.accesses = <<"exists">>]_vars

\* the extension diagnostic for a file one byte over the size limit
C24_Witness ==
    /\ pc = "done" /\ error.message = "File must have .af extension"
    /\ input.bytes = MAX_INPUT_SIZE + 1 /\ io.accesses = <<"exists">>

-----------------------------------------------------------------------------
\* C25: load_input called with neither a source nor a stream, or with both,
\* fails with a ValueError, which is no parse diagnostic, and has then made no
\* access to the file system or to the stream.
Diagnostics == {"AFParseError", "AFMissingKeyError", "AFDuplicateKeyError",
                "AFUnknownKeyError", "AFSyntaxError", "AFEmptyValueError", "AFSizeError"}

NeitherOrBothAhead ==
    /\ pc = "load" /\ input.entry = "load_input"
    /\ \/ args.source = <<>> /\ args.stream = <<>>
       \/ args.source # <<>> /\ args.stream # <<>>

C25_ExactlyOneSource ==
    [][NeitherOrBothAhead =>
          /\ pc' = "done"
          /\ error'.type = "ValueError" /\ error'.type \notin Diagnostics
          /\ io'.accesses = <<>>
          /\ content' = content]_vars

\* the ValueError for a call with both the path of a text file and a stream
C25_Witness ==
    /\ pc = "done" /\ error.type = "ValueError"
    /\ args.source # <<>> /\ args.stream # <<>>
    /\ io = TextFile

-----------------------------------------------------------------------------
\* C26: on every input on which tokenizing does not fail, tokenizing ends, and
\* the tokens then hold exactly one end-of-input token, as their last element;
\* and the spaces and tabs between tokens give no token: a run of them that
\* reaches the end of the input adds nothing, and one before a token only
\* moves the column at which the token starts.
Blank == {" ", "\t"}

\* the number of spaces and tabs at the head of text
RECURSIVE LeadingBlanks(_)
LeadingBlanks(text) ==
    IF text # <<>> /\ Head(text) \in Blank THEN 1 + LeadingBlanks(Tail(text)) ELSE 0

\* the text the tokenizer moved over in this step
MovedOver == SubSeq(content, tpos + 1, tpos')

EndOfInputTokens == {i \in 1..Len(tokens) : tokens[i].type = "EOF"}

TokenizerFailed == pc = "done" /\ (tokens = <<>> \/ tokens[Len(tokens)].type # "EOF")

C26_OneEndOfInput ==
    /\ []((pc # "tokenize" /\ ~TokenizerFailed) => EndOfInputTokens = {Len(tokens)})
    /\ [](pc = "tokenize" => EndOfInputTokens = {})
    /\ [][/\ (pc = "tokenize" /\ tpos >= Len(content)) =>
                (pc' = "parse" /\ Len(tokens') = Len(tokens) + 1)
          /\ (pc = "tokenize" /\ tpos < Len(content) /\ error' = NoError) =>
                /\ pc' = "tokenize" /\ tpos < tpos' /\ tpos' <= Len(content)
                /\ IF LeadingBlanks(MovedOver) = Len(MovedOver)
                   THEN tokens' = tokens /\ tpos' = Len(content)
                   ELSE /\ Len(tokens') = Len(tokens) + 1
                        /\ SubSeq(tokens', 1, Len(tokens)) = tokens
                        /\ tokens'[Len(tokens')].line = tline
                        /\ tokens'[Len(tokens')].column = tcolumn + LeadingBlanks(MovedOver)
                        /\ tokens'[Len(tokens')].type \in {"KEY", "COLON", "COMMA", "LBRACKET",
                                                          "RBRACKET"} =>
                              tokens'[Len(tokens')].value
                                = SubSeq(MovedOver, LeadingBlanks(MovedOver) + 1, Len(MovedOver))
          /\ pc \notin {"tokenize", "load", "shell"} => tokens' = tokens]_vars

\* a parse that succeeded on an input that ends in a space and a tab
C26_Witness ==
    /\ Succeeded /\ Len(content) > 2
    /\ content[Len(content) - 1] = " " /\ content[Len(content)] = "\t"
    /\ tokens[Len(tokens) - 1].type = "NEWLINE"

-----------------------------------------------------------------------------
\* C27: a list that is not closed with ']' fails with a syntax error, never
\* with an empty-value error and never succeeds: behind one or more items when
\* the input ends or a token other than a comma, a ']' or a string follows;
\* behind a comma when the input ends or a ':' or '[' follows; and right
\* behind '[', before any item, when the input ends or a token follows that is
\* no string, comma, key or ']'.

\* the token behind the item ahead and the newlines and comments after it
BehindItem ==
    PeekToken(tokens, SkipNewlinesAndComments(tokens,
                          SkipNewlinesAndComments(tokens, pos) + 1))

UnclosedBehindItemAhead ==
    /\ pc = "list_item" /\ NextSig.type = "STRING"
    /\ BehindItem.type \notin {"COMMA", "RBRACKET", "STRING"}

UnclosedBehindCommaAhead ==
    /\ pc = "list_item" /\ items # <<>> /\ PrevSig.type = "COMMA"
    /\ NextSig.type \in {"None", "EOF", "COLON", "LBRACKET"}

UnclosedBehindBracketAhead ==
    /\ pc = "list_item" /\ items = <<>> /\ PrevSig.type = "LBRACKET"
    /\ NextSig.type \notin {"STRING", "COMMA", "KEY", "RBRACKET"}

C27_UnclosedListIsSyntaxError ==
    [][(UnclosedBehindItemAhead \/ UnclosedBehindCommaAhead \/ UnclosedBehindBracketAhead) =>
          (pc' = "done" /\ error'.type = "AFSyntaxError" /\ returned' = <<>>)]_vars

-----------------------------------------------------------------------------
\* C28: two parses of independent inputs whose tokenizer and parser steps are
\* interleaved in any order each end in what the same input ends in when it
\* is parsed with nothing else running: the same record in the same key order,
\* or the same diagnostic at the same line and column.

BothCallsEnded == conc.phase = "together" /\ pc = "done" /\ conc.waiting.pc = "done"

C28_AsWhenAlone ==
    BothCallsEnded =>
        /\ Outcome(Frame) = conc.alone[conc.running]
        /\ Outcome(conc.waiting) = conc.alone[3 - conc.running]

\* both calls ended, one in a record and the other in the duplicate-key
\* diagnostic, and the one that ended last was the first to start
C28_Witness ==
    /\ BothCallsEnded /\ conc.running = 1
    /\ error = NoError /\ Len(returned) = 5
    /\ conc.waiting.error.type = "AFDuplicateKeyError"

-----------------------------------------------------------------------------
\* C29: the record of a successful parse, written back as .af text (keys in
\* the canonical order, each string between double quotes with backslash,
\* double quote, newline and tab written as escapes, list items separated by
\* commas between brackets) and parsed again, gives a record equal to the
\* first one.
ParsedAgain == conc.phase = "again" /\ pc = "done"

C29_Idempotent == ParsedAgain => error = NoError /\ returned = conc.first

\* C29 as it holds: the text written and parsed again gives a record equal to
\* the first one when the text is of at most MAX_INPUT_SIZE bytes; a longer
\* text, which the escapes written for a shorter document can make, is refused
\* with the size diagnostic.
C29_IdempotentWithinLimit ==
    ParsedAgain =>
        IF TooLarge(input.bytes)
        THEN error = SizeError
        ELSE error = NoError /\ returned = conc.first

\* a purpose of a backslash and a tab, followed by a long run, came back the
\* same from the text written
C29_Witness ==
    /\ ParsedAgain /\ error = NoError /\ conc.run > 0
    /\ DictGet(returned, purpose) = <<"\\", "\t">>
    /\ returned = conc.first

-----------------------------------------------------------------------------
\* C30: at each top-level entry the checks of the parser fire in a fixed order,
\* whatever stands behind the first token: a Colon there is the empty-key
\* error and any other token that is no Key the expected-key error; then a key
\* that is not recognized is the unknown-key error, with or without a colon
\* behind it; then a recognized key already stored is the duplicate-key
\* error, whether its colon or its value is there, missing or malformed; then
\* a missing Colon is a syntax error; and only then the value is read.  Each
\* of the first four is reported at the first token of the entry.
EntryToken == PeekToken(tokens, pos)
AtEntryToken(type) ==
    /\ pc' = "done" /\ error'.type = type
    /\ error'.line = EntryToken.line /\ error'.column = EntryToken.column
    /\ result' = result

C30_ChecksInOrder ==
    [][pc = "line" =>
          LET key == Lower(EntryToken.value)
              behind == PeekToken(tokens, pos + 1)
          IN  IF EntryToken.type = "COLON"
              THEN AtEntryToken("AFSyntaxError") /\ error'.message = "Empty key before ':'"
              ELSE IF EntryToken.type # "KEY"
              THEN AtEntryToken("AFSyntaxError") /\ error'.message = "Expected key"
              ELSE IF key \notin REQUIRED_KEYS
              THEN AtEntryToken("AFUnknownKeyError") /\ error'.keys = <<key>>
              ELSE IF \E i \in 1..Len(result) : result[i].key = key
              THEN AtEntryToken("AFDuplicateKeyError") /\ error'.keys = <<key>>
              ELSE IF behind = NoToken \/ behind.type # "COLON"
              THEN /\ pc' = "done" /\ error'.type = "AFSyntaxError"
                   /\ error'.message = "Expected COLON"
                   /\ result' = result
              ELSE pc' = "value" /\ error' = NoError /\ result' = result]_vars

\* the parse ended in the duplicate-key error at a second purpose that has no
\* colon behind it but a string
C30_Witness ==
    /\ pc = "done" /\ error.type = "AFDuplicateKeyError"
    /\ error.line = 2 /\ error.column = 1
    /\ pos < Len(tokens) /\ tokens[pos + 1].type = "STRING"
    /\ tokens[pos].type = "KEY" /\ tokens[pos].value = purpose

-----------------------------------------------------------------------------
\* C31: outside strings and comments the tokenizer accepts only space, tab,
\* "\n", "\r", "#", ":", "[", "]", ",", the two quotes, and a letter or an
\* underscore, which starts a Key that runs on over letters, digits,
\* underscores and hyphens; at any other character, a digit or a hyphen at the
\* start of a word included, it fails with the unexpected-character syntax
\* error at the line and column of that character, a line ending at each
\* "\n", "\r\n" and lone "\r".
StartsToken(ch) ==
    ch \in {"\n", "\r", "#", ":", "[", "]", ",", "\"", "'", "_"}
              \cup LowerLetters \cup UpperLetters

\* the 1-based index behind the word that starts at i
RECURSIVE WordEnd(_)
WordEnd(i) ==
    IF i <= Len(content)
       /\ content[i] \in LowerLetters \cup UpperLetters \cup Digits \cup {"_", "-"}
    THEN WordEnd(i + 1) ELSE i

TokenAhead == pc = "tokenize" /\ TokenStart <= Len(content)

C31_OnlyTheseCharacters ==
    [][TokenAhead =>
          IF StartsToken(content[TokenStart])
          THEN /\ error'.message # "Unexpected character"
               /\ content[TokenStart] \in LowerLetters \cup UpperLetters \cup {"_"} =>
                     /\ error' = NoError
                     /\ tokens'[Len(tokens')].type = "KEY"
                     /\ tokens'[Len(tokens')].value =
                            SubSeq(content, TokenStart, WordEnd(TokenStart) - 1)
          ELSE /\ pc' = "done"
               /\ error'.type = "AFSyntaxError"
               /\ error'.message = "Unexpected character"
               /\ error'.line = StartLine(TokenStart)
               /\ error'.column = StartColumn(TokenStart)]_vars

-----------------------------------------------------------------------------
\* C32: _levenshtein_distance(s1, s2) is the edit distance of the two strings,
\* the least number of insertions, deletions and substitutions of one
\* character that turn one into the other; it is the same both ways round and
\* it is 0 exactly when the strings are equal; and _find_closest_key measures
\* the lowercased forms: the name it gives is one at the least edit distance
\* from the lowercased word if that distance is at most 2, and none otherwise.

\* the edit distance by its definition on the first characters: drop one from
\* a, drop one from b, or match or change the two
RECURSIVE EditDistance(_, _)
EditDistance(a, b) ==
    IF a = <<>> THEN Len(b)
    ELSE IF b = <<>> THEN Len(a)
    ELSE LET drop_a == EditDistance(Tail(a), b) + 1
             drop_b == EditDistance(a, Tail(b)) + 1
             both == EditDistance(Tail(a), Tail(b)) + (IF Head(a) = Head(b) THEN 0 ELSE 1)
         IN  IF drop_a <= drop_b /\ drop_a <= both THEN drop_a
             ELSE IF drop_b <= both THEN drop_b ELSE both

LeastToAKey(w) ==
    LET distances == {EditDistance(w, k) : k \in REQUIRED_KEYS}
    IN  CHOOSE d \in distances : \A e \in distances : d <= e

C32_EditDistance ==
    /\ pc = "done" =>
          /\ suggested.distance = EditDistance(key1, suggested.s2)
          /\ suggested.back = suggested.distance
          /\ (suggested.distance = 0) <=> (key1 = suggested.s2)
    /\ pc = "distance" =>
          LET least == LeastToAKey(Lower(key1))
          IN  IF least <= 2
              THEN /\ suggested.key \in REQUIRED_KEYS
                   /\ EditDistance(Lower(key1), suggested.key) = least
              ELSE suggested.key = <<>>

\* MUTS in capitals was measured against dnot, at the distance 4, and must was
\* the name given for it
C32_Witness ==
    /\ pc = "done"
    /\ key1 = <<"M","U","T","S">> /\ suggested.s2 = <<"d","n","o","t">>
    /\ suggested.distance = 4 /\ suggested.key = must

-----------------------------------------------------------------------------
\* C33: load_input given exactly one of source and stream ends in the decoded
\* text or in one of three failures: the source not found, the size exceeded,
\* the encoding invalid; and a source that is given but is the empty string is
\* handled as a path, looked up and then not found or read, never as a stream.
ExactlyOneGiven == (args.source = <<>>) # (args.stream = <<>>)

LoadInputEnded == pc = "done" /\ input.entry = "load_input"

C33_LoadOutcomes ==
    (LoadInputEnded /\ ExactlyOneGiven) =>
        /\ error.type \in {"None", "FileNotFoundError", "AFSizeError", "AFParseError"}
        /\ args.source = <<<<>>>> =>
              /\ io.accesses # <<>> /\ io.accesses[1] = "exists"
              /\ error.type # "AttributeError"

-----------------------------------------------------------------------------
\* C34: a '#' where a token starts begins a Comment token whose value is every
\* character behind the '#' up to, and without, the next "\n" or "\r" or the
\* end of the input, quotes among them: a quote in a comment starts no string.
\* The line terminator behind a comment is emitted as a Newline token of its
\* own.  A '#' between the quotes of a string is a character of the string's
\* value and starts no comment.

\* the 1-based index of the first line terminator from i on, or behind the input
RECURSIVE LineEnd(_)
LineEnd(i) ==
    IF i > Len(content) \/ content[i] \in {"\n", "\r"} THEN i ELSE LineEnd(i + 1)

CommentAhead == TokenAhead /\ content[TokenStart] = "#"

\* a string that closes is ahead, with a '#' between its quotes
StringWithHashAhead ==
    /\ TerminatedStringAhead
    /\ \E k \in 1..Len(Decoded(content, TokenStart + 1, content[TokenStart])) :
          Decoded(content, TokenStart + 1, content[TokenStart])[k] = "#"

LastToken(toks) == toks[Len(toks)]

C34_Comments ==
    /\ [][CommentAhead =>
            /\ error' = NoError
            /\ Len(tokens') = Len(tokens) + 1
            /\ LastToken(tokens').type = "COMMENT"
            /\ LastToken(tokens').value =
                   SubSeq(content, TokenStart + 1, LineEnd(TokenStart) - 1)
            /\ tpos' = LineEnd(TokenStart) - 1]_vars
    /\ [][(pc = "tokenize" /\ tokens # <<>> /\ LastToken(tokens).type = "COMMENT"
           /\ tpos < Len(content)) =>
            /\ error' = NoError
            /\ LastToken(tokens').type = "NEWLINE"]_vars
    /\ [][StringWithHashAhead =>
            /\ error' = NoError
            /\ Len(tokens') = Len(tokens) + 1
            /\ LastToken(tokens').type = "STRING"
            /\ LastToken(tokens').value =
                   Decoded(content, TokenStart + 1, content[TokenStart])]_vars

\* the record was returned for a document whose list holds the items #a and
\* b#, with a comment of a single quote and a c between them that was
\* followed by a Newline token
C34_Witness ==
    /\ Succeeded
    /\ DictGet(returned, must) = <<<<"#", "a">>, <<"b", "#">>>>
    /\ \E i \in 1..(Len(tokens) - 1) :
          /\ tokens[i].type = "COMMENT" /\ tokens[i].value = <<"'", "c">>
          /\ tokens[i + 1].type = "NEWLINE"

-----------------------------------------------------------------------------
\* C35: the whole input is tokenized before the parser runs.  The parser is at
\* work only on a token sequence that ends in the end-of-input token, made of
\* the whole text; a diagnostic of the tokenizer (unexpected character,
\* unterminated string, empty string, incomplete escape) ends the run with the
\* parser never started, whatever the lines before it hold; so a diagnostic of
\* the parser is reported only for a text that the tokenizer takes to its end.
LexicalMessages ==
    {"Unexpected character", "Unterminated string", "String value cannot be empty",
     "Incomplete escape sequence at end of input"}

WholeInputTokenized ==
    /\ tpos >= Len(content)
    /\ tokens # <<>> /\ LastToken(tokens).type = "EOF"
    /\ \A i \in 1..(Len(tokens) - 1) : tokens[i].type # "EOF"

ParserNotStarted == pos = 0 /\ result = <<>> /\ seen_keys = <<>> /\ returned = <<>>

C35_TokenizedBeforeParsed ==
    /\ [](pc \notin {"tokenize", "done"} => WholeInputTokenized)
    /\ [](pc = "tokenize" => ParserNotStarted)
    /\ [][(pc = "tokenize" /\ error' # NoError) =>
            /\ pc' = "done"
            /\ error'.message \in LexicalMessages
            /\ UNCHANGED <<pos, result, seen_keys, returned>>]_vars
    /\ [](pc = "done" =>
            IF error.message \in LexicalMessages
            THEN ParserNotStarted /\ ~WholeInputTokenized
            ELSE WholeInputTokenized)

\* the string that does not end on line 2 was reported, with the parser never
\* started, for a text whose line 1 holds the unknown key pourpose
C35_Witness ==
    /\ pc = "done" /\ error.message = "Unterminated string" /\ error.line = 2
    /\ ParserNotStarted
    /\ tokens # <<>> /\ tokens[1].type = "KEY"
    /\ tokens[1].value = <<"p","o","u","r","p","o","s","e">>

-----------------------------------------------------------------------------
\* the pass that validate_af_content is about to make takes something or ends
\* something: a call of _next_token takes a character or raises, a pass of the
\* loop of Parser.parse takes a token in its skip or comes to a key line, a
\* key line takes a token or raises, and a pass of the loop of
\* _parse_list_value takes a token, raises or leaves the loop
StepConsumes ==
    CASE pc = "tokenize" ->
             \/ tpos >= Len(content)
             \/ LET r == NextTokenFrom(content,
                                       [pos |-> tpos, line |-> tline, column |-> tcolumn])
                IN  r.err # NoError \/ r.state.pos > tpos
      [] pc = "parse" ->
             \/ AtEnd
             \/ LET p == SkipNewlinesAndComments(tokens, pos)
                IN  p > pos \/ (PeekToken(tokens, p) # NoToken
                                  /\ PeekToken(tokens, p).type # "EOF")
      [] pc = "line" ->
             \A order \in OrdersAt(tokens, pos) :
                 LET r == ParseLineKey(tokens, pos, result, seen_keys, order,
                                       SplitLines(content))
                 IN  r.err # NoError \/ r.pos > pos
      [] pc = "value" -> Lower(key_token.value) \in STRING_KEYS \cup LIST_KEYS
      [] pc = "list_item" ->
             LET r == ParseListItem(tokens, pos, items, expecting_item)
             IN  r.err # NoError \/ r.brk \/ r.pos > pos
      [] OTHER -> TRUE

\* C36: for every input text, tokenizing and then parsing comes to an end,
\* with a record or a diagnostic.  Every pass of the tokenizer's loop takes at
\* least one character or raises; every pass of the parser's loop over the
\* entries (the skip and the key line) and every pass of its loop over the
\* items of a list takes at least one token, raises or leaves the loop, and
\* the parser's position never goes back; the parser never takes the
\* end-of-input token and never stands behind it.
C36_Terminates ==
    /\ [](pc # "done" => StepConsumes)
    /\ [][(pc = "tokenize" /\ pc' = "tokenize") => tpos' > tpos]_vars
    /\ [][(pc \in {"parse", "list_item"} /\ pc' = pc) => pos' > pos]_vars
    /\ [][pc = "line" => (pos' > pos \/ (pc' = "done" /\ error' # NoError))]_vars
    /\ [][pc \notin {"tokenize", "done"} => pos' >= pos]_vars
    /\ [](pc # "tokenize" => (pos < Len(tokens) \/ tokens = <<>>))
    /\ [](tpos <= Len(content))
    /\ <>(pc = "done" /\ (error = NoError <=> returned # <<>>))

\* the parse of a document of five entries ended with the parser standing at
\* the end-of-input token
C36_Witness ==
    /\ Succeeded /\ Len(tokens) > 20
    /\ pos = Len(tokens) - 1 /\ tokens[pos + 1].type = "EOF"

-----------------------------------------------------------------------------
\* C37: the same bytes end in the same way whether parse_af_file reads them
\* from a file named x.af or parse_af_stdin reads them from standard input:
\* in an equal record, or in a diagnostic of the same kind.
BothPathsEnded == conc.phase = "stdin" /\ pc = "done"

C37_SameOnBothPaths ==
    BothPathsEnded =>
        /\ returned = conc.file.returned
        /\ error.type = conc.file.error.type

-----------------------------------------------------------------------------
\* C38: an unknown-key diagnostic that renders a caret reproduces the line of
\* the input on which the key stands, a line ending at each "\n", "\r\n" and
\* lone "\r", and its caret line puts '^' under the first character of the
\* key.

\* the 1-based index in the input of the first character of the token the
\* parser is at, found from the line and column the tokenizer gave it: the
\* tokenizer starts a line behind each "\n"
KeyStart ==
    CHOOSE i \in 1..Len(content) :
        /\ 1 + Cardinality({j \in 1..(i - 1) : content[j] = "\n"}) = ThisToken.line
        /\ \E k \in 0..(i - 1) :
              /\ k = 0 \/ content[k] = "\n"
              /\ \A j \in (k + 1)..(i - 1) : content[j] # "\n"
              /\ i - k = ThisToken.column

\* the line of the input that holds index i, without its terminator
LineHolding(i) == SubSeq(content, LastTerminator(i - 1) + 1, LineEnd(i) - 1)

C38_CaretUnderUnknownKey ==
    [][(UnknownKeyAhead /\ Caret(error') # <<>>) =>
        /\ SubSeq(content, KeyStart, KeyStart + Len(ThisToken.value) - 1) = ThisToken.value
        /\ Caret(error')[1] = LineHolding(KeyStart)
        /\ Len(Caret(error')[2]) = KeyStart - LastTerminator(KeyStart - 1)]_vars

-----------------------------------------------------------------------------
\* C39: in the tokens the tokenizer has produced, each token stands behind the
\* one before it: on a later line, or on the same line at a greater column;
\* this holds for the end-of-input token as well.  Every token has a line and
\* a column of at least 1.
StandsBefore(a, b) == a.line < b.line \/ (a.line = b.line /\ a.column < b.column)

C39_PositionsIncrease ==
    /\ \A i \in 1..Len(tokens) : tokens[i].line >= 1 /\ tokens[i].column >= 1
    /\ \A i \in 1..(Len(tokens) - 1) : StandsBefore(tokens[i], tokens[i + 1])

\* all of an input was tokenized in which a token on a later line stands at a
\* smaller column than the token before it, and the end-of-input token stands
\* on the line of the token before it
C39_Witness ==
    /\ Len(tokens) > 10 /\ LastToken(tokens).type = "EOF"
    /\ LastToken(tokens).line = tokens[Len(tokens) - 1].line
    /\ \E i \in 1..(Len(tokens) - 1) :
          tokens[i + 1].line > tokens[i].line /\ tokens[i + 1].column < tokens[i].column

====
